---- MODULE Spec2Model ----
(***************************************************************************)
(* Warehouse facility contract (src/Rust/warehouse-facility.rs).           *)
(*                                                                         *)
(* The persisted ledger is three keyed maps: pledges, paydowns and assets. *)
(* A map is a function whose domain is the set of stored keys, so that     *)
(* load_xxx(id) succeeds iff id \in DOMAIN xxx.  Asset lists are Vec of    *)
(* String in the code; every consumer of such a list (vec_contains,        *)
(* vec_has_any, set_assets_state, remove_assets) is insensitive to order   *)
(* and multiplicity, so a list is modelled as the set of its elements.     *)
(* An Option is a sequence of length 0 or 1.                               *)
(*                                                                         *)
(* Every handler is an operator that reads the ledger and the escrow       *)
(* marker and returns the response together with the ledger it leaves      *)
(* behind; the action of the handler installs that ledger.                 *)
(***************************************************************************)
EXTENDS Integers, Sequences, FiniteSets, TLC

\* ------------------------------------------------------------------ bounds
NumAssets == 2
NumPledgeIds == 2
NumPaydownIds == 2
MaxAmount == 1

AssetIds == 1..NumAssets
PledgeIds == 1..NumPledgeIds
PaydownIds == 1..NumPaydownIds
Amounts == 1..MaxAmount
\* the asset lists a caller may send: every non-empty list over AssetIds
AssetLists == (SUBSET AssetIds) \ {{}}

\* ------------------------------------------------- facility configuration
Contract == "contract"
Warehouse == "warehouse"
Originator == "originator"
EscrowMarker == "escrow"
Stablecoin == "stable"
OtherDenom == "other"
BuyerAddr == "buyer"
Stranger == "stranger"

Senders == {Warehouse, BuyerAddr, Stranger}
Buyers == {BuyerAddr}
MarkerDenom(id) == "pool" \o ToString(id)

Coin(denom, amount) == [denom |-> denom, amount |-> amount]
\* info.funds, a Vec of Coin: nothing attached, one coin of another denom, one coin of the
\* settlement denom in every amount, or a coin of the settlement denom followed by a second coin
FundsSet == {<<>>, <<Coin(OtherDenom, 1)>>} \cup {<<Coin(Stablecoin, n)>> : n \in 1..(MaxAmount + 1)}
              \cup {<<Coin(Stablecoin, n), Coin(OtherDenom, 1)>> : n \in Amounts}

\* the escrow marker as the querier returns it: its access list.  The marker lives outside
\* the contract, so each call sees whatever list the marker has at that moment.
AccessGrant(address, permissions) == [address |-> address, permissions |-> permissions]
EscrowMarkers == { << AccessGrant(Warehouse, {"Transfer", "Withdraw"}) >>,
                   << AccessGrant(Contract, {"Transfer"}) >>,
                   << AccessGrant(Contract, {"Admin", "Transfer", "Withdraw"}) >> }

\* ------------------------------------------------------------------ state
\* pledges, paydowns, assets: the persisted ledger.
\* removed_by_paydown: history of the ledger, the asset ids whose latest change of custody
\* is their removal by an executed paydown (they are not back in a later executed pledge).
\* escrow_net: history, the settlement currency the emitted instructions have sent to the
\* escrow marker less what they have withdrawn from it.
VARIABLES pledges, paydowns, assets, removed_by_paydown, escrow_net

\* schedule: who calls the facility: "any" while every call is possible, "settling" once the
\* parties only make the calls that bring the open pledges to an end.
VARIABLES schedule

\* The capital-call contract (src/capital-call.rs), a contract of its own:
\* config: its stored State singleton.
\* capital_sent: history, the number of sends of the capital its successful calls have emitted.
VARIABLES config, capital_sent

\* The restricted-marker-transfer contract (src/Rust/restricted-marker-transfer.rs), a
\* contract of its own:
\* transfers: TRANSFER_STORAGE, the pending transfers by id.
\* requested, released: history, per id the number of successful Transfer calls and the
\* number of successful approve, cancel and reject calls so far.
VARIABLES transfers, requested, released

vars == <<pledges, paydowns, assets, removed_by_paydown, escrow_net, schedule, config, capital_sent,
          transfers, requested, released>>

NumTransferIds == 2

MaxTransfersPerId == 2

TransferIds == 1..NumTransferIds

NoneCounted == [id \in TransferIds |-> 0]

\* the capital-call storage where that contract is not instantiated
NotInstantiated == [status |-> "NotInstantiated"]

ledger == <<pledges, paydowns, assets>>

\* --------------------------------------------------------------- messages
Msg(kind, marker, denom, amount, to, from) == [msg |-> kind, marker |-> marker, denom |-> denom, amount |-> amount, to |-> to, from |-> from]

BankSend(to, amount, denom) == Msg("send", "-", denom, amount, to, Contract)

create_marker(supply, denom) == Msg("create_marker", denom, denom, supply, "-", "-")

grant_marker_access(denom, address) == Msg("grant_marker_access", denom, denom, 0, address, "-")

finalize_marker(denom) == Msg("finalize_marker", denom, denom, 0, "-", "-")

activate_marker(denom) == Msg("activate_marker", denom, denom, 0, "-", "-")

withdraw_coins(marker_denom, amount, denom, recipient) == Msg("withdraw_coins", marker_denom, denom, amount, recipient, marker_denom)

transfer_marker_coins(amount, denom, to, from) == Msg("transfer_marker_coins", denom, denom, amount, to, from)

cancel_marker(denom) == Msg("cancel_marker", denom, denom, 0, "-", "-")

destroy_marker(denom) == Msg("destroy_marker", denom, denom, 0, "-", "-")

\* ---------------------------------------------------------------- helpers
vec_contains(v, other) == other \subseteq v

vec_has_any(v, other) == (v \cap other) # {}

\* Option<AssetState> is <<>> (None, any state) or <<s>>
get_asset_ids(as, state) == {a \in DOMAIN as : state = <<>> \/ as[a] = state[1]}

get_asset_ids_by_filter(as, states) == {a \in DOMAIN as : as[a] \in states}

set_assets_state(as, state, ids) == [a \in (DOMAIN as) \cup ids |-> IF a \in ids THEN state ELSE as[a]]

remove_assets(as, ids) == [a \in (DOMAIN as) \ ids |-> as[a]]

save_pledge(pl, id, pledge) == [i \in (DOMAIN pl) \cup {id} |-> IF i = id THEN pledge ELSE pl[i]]

save_paydown(pd, id, paydown) == [i \in (DOMAIN pd) \cup {id} |-> IF i = id THEN paydown ELSE pd[i]]

RECURSIVE SortedSeq(_)
SortedSeq(S) == IF S = {} THEN <<>> ELSE LET m == CHOOSE x \in S : \A y \in S : x <= y IN <<m>> \o SortedSeq(S \ {m})

Range(s) == {s[i] : i \in DOMAIN s}

\* ids of the stored pledges in the given state that reference any of the assets, in key order
find_pledge_ids_with_assets(pl, ids, state) == SortedSeq({i \in DOMAIN pl : pl[i].state = state /\ vec_has_any(pl[i].assets, ids)})

\* mutant: is content with any one of the permissions asked for
marker_has_grant_any(marker, grant) ==
  LET access == SelectSeq(marker, LAMBDA p : p.address = grant.address)
  IN IF Len(access) > 0 THEN vec_has_any(access[1].permissions, grant.permissions) ELSE FALSE

marker_has_grant(marker, grant) ==
  LET access == SelectSeq(marker, LAMBDA p : p.address = grant.address)
  IN IF Len(access) > 0 THEN vec_contains(access[1].permissions, grant.permissions) ELSE FALSE

\* mutant: accepts a list as soon as one of its assets is in the required state
assets_in_inventory_any(state, ids) == vec_has_any(get_asset_ids(assets, state), ids)

assets_in_inventory(state, ids) == vec_contains(get_asset_ids(assets, state), ids)

\* mutant: holds only when all of the assets are recorded
any_assets_in_inventory_all(state, ids) == vec_contains(get_asset_ids(assets, state), ids)

\* mutant: looks only at the assets in state Inventory, whatever state is asked for
any_assets_in_inventory_inv(state, ids) == vec_has_any(get_asset_ids(assets, <<"Inventory">>), ids)

any_assets_in_inventory(state, ids) == vec_has_any(get_asset_ids(assets, state), ids)

\* mutant: lists only the assets in state Inventory
list_inventory_only_free(as) == get_asset_ids_by_filter(as, {"Inventory"})

list_inventory(as) == get_asset_ids_by_filter(as, {"Inventory", "PaydownProposed"})

\* mutant: answers from the access list seen when the facility was set up
EscrowGrantOk_cached(escrow_marker) ==
  marker_has_grant(<< AccessGrant(Contract, {"Admin", "Transfer", "Withdraw"}) >>,
                   AccessGrant(Contract, {"Transfer", "Withdraw"}))

\* the check every handler makes on the escrow marker it has just queried
EscrowGrantOk(escrow_marker) == marker_has_grant(escrow_marker, AccessGrant(Contract, {"Transfer", "Withdraw"}))

\* -------------------------------------------------------------- responses
Resp(err, pl, pd, as, msgs, aff, cl) == [err |-> err, pledges |-> pl, paydowns |-> pd, assets |-> as, messages |-> msgs, affected_pledges |-> aff, closed_pledges |-> cl]

Err(e) == Resp(e, pledges, paydowns, assets, <<>>, <<>>, <<>>)

\* ---------------------------------------------------------- pledge engine
\* mutant: an id whose pledge is Cancelled or Closed is free again
propose_pledge_reuse_id(escrow_marker, id, asset_ids, total_advance, asset_marker_denom) ==
  IF id \in DOMAIN pledges /\ pledges[id].state \notin {"Cancelled", "Closed"} THEN Err("PledgeAlreadyExists")
  ELSE IF any_assets_in_inventory(<<>>, asset_ids) THEN Err("AssetsAlreadyPledged")
  ELSE IF ~EscrowGrantOk(escrow_marker) THEN Err("MissingEscrowMarkerGrant")
  ELSE LET pledge == [id |-> id, assets |-> asset_ids, total_advance |-> total_advance,
                      asset_marker_denom |-> asset_marker_denom, state |-> "Proposed"]
       IN Resp("Ok",
               save_pledge(pledges, id, pledge),
               paydowns,
               set_assets_state(assets, "PledgeProposed", pledge.assets),
               << create_marker(1, asset_marker_denom),
                  grant_marker_access(asset_marker_denom, Contract),
                  finalize_marker(asset_marker_denom),
                  activate_marker(asset_marker_denom),
                  withdraw_coins(asset_marker_denom, 1, asset_marker_denom, Originator) >>,
               <<>>, <<>>)

propose_pledge(escrow_marker, id, asset_ids, total_advance, asset_marker_denom) ==
  IF id \in DOMAIN pledges THEN Err("PledgeAlreadyExists")
  ELSE IF any_assets_in_inventory(<<>>, asset_ids) THEN Err("AssetsAlreadyPledged")
  ELSE IF ~EscrowGrantOk(escrow_marker) THEN Err("MissingEscrowMarkerGrant")
  ELSE LET pledge == [id |-> id, assets |-> asset_ids, total_advance |-> total_advance,
                      asset_marker_denom |-> asset_marker_denom, state |-> "Proposed"]
       IN Resp("Ok",
               save_pledge(pledges, id, pledge),
               paydowns,
               set_assets_state(assets, "PledgeProposed", pledge.assets),
               << create_marker(1, asset_marker_denom),
                  grant_marker_access(asset_marker_denom, Contract),
                  finalize_marker(asset_marker_denom),
                  activate_marker(asset_marker_denom),
                  withdraw_coins(asset_marker_denom, 1, asset_marker_denom, Originator) >>,
               <<>>, <<>>)

\* mutant: saves the accepted pledge before it looks at the funds
accept_pledge_save_first(escrow_marker, id, funds) ==
  IF id \notin DOMAIN pledges THEN Err("NotFound")
  ELSE LET pledge == pledges[id]
           saved == save_pledge(pledges, id, [pledge EXCEPT !.state = "Accepted"]) IN
  IF pledge.state # "Proposed" THEN Err("StateError")
  ELSE IF ~EscrowGrantOk(escrow_marker) THEN Err("MissingEscrowMarkerGrant")
  ELSE IF Len(funds) = 0
       THEN Resp("MissingPledgeAdvanceFunds", saved, paydowns, assets, <<>>, <<>>, <<>>)
  ELSE IF funds[1].denom # Stablecoin \/ funds[1].amount # pledge.total_advance
       THEN Resp("InsufficientPledgeAdvanceFunds", saved, paydowns, assets, <<>>, <<>>, <<>>)
  ELSE Resp("Ok", saved, paydowns, assets,
            << BankSend(EscrowMarker, pledge.total_advance, Stablecoin) >>,
            <<>>, <<>>)

\* mutant: marks every Proposed pledge Accepted, not only the one addressed
accept_pledge_every_proposed(escrow_marker, id, funds) ==
  IF id \notin DOMAIN pledges THEN Err("NotFound")
  ELSE LET pledge == pledges[id] IN
  IF pledge.state # "Proposed" THEN Err("StateError")
  ELSE IF ~EscrowGrantOk(escrow_marker) THEN Err("MissingEscrowMarkerGrant")
  ELSE IF Len(funds) = 0 THEN Err("MissingPledgeAdvanceFunds")
  ELSE IF funds[1].denom # Stablecoin \/ funds[1].amount # pledge.total_advance
       THEN Err("InsufficientPledgeAdvanceFunds")
  ELSE Resp("Ok",
            [p \in DOMAIN pledges |-> IF pledges[p].state = "Proposed" THEN [pledges[p] EXCEPT !.state = "Accepted"] ELSE pledges[p]],
            paydowns, assets,
            << BankSend(EscrowMarker, pledge.total_advance, Stablecoin) >>,
            <<>>, <<>>)

accept_pledge(escrow_marker, id, funds) ==
  IF id \notin DOMAIN pledges THEN Err("NotFound")
  ELSE LET pledge == pledges[id] IN
  IF pledge.state # "Proposed" THEN Err("StateError")
  ELSE IF ~EscrowGrantOk(escrow_marker) THEN Err("MissingEscrowMarkerGrant")
  ELSE IF Len(funds) = 0 THEN Err("MissingPledgeAdvanceFunds")
  ELSE IF funds[1].denom # Stablecoin \/ funds[1].amount # pledge.total_advance
       THEN Err("InsufficientPledgeAdvanceFunds")
  ELSE Resp("Ok",
            save_pledge(pledges, id, [pledge EXCEPT !.state = "Accepted"]),
            paydowns, assets,
            << BankSend(EscrowMarker, pledge.total_advance, Stablecoin) >>,
            <<>>, <<>>)

\* mutant: cancels a pledge in whatever state it is
cancel_pledge_any_state(escrow_marker, id) ==
  IF id \notin DOMAIN pledges THEN Err("NotFound")
  ELSE LET pledge == pledges[id] IN
  IF ~EscrowGrantOk(escrow_marker) THEN Err("MissingEscrowMarkerGrant")
  ELSE Resp("Ok",
            save_pledge(pledges, id, [pledge EXCEPT !.state = "Cancelled"]),
            paydowns,
            remove_assets(assets, pledge.assets),
            << transfer_marker_coins(1, pledge.asset_marker_denom, pledge.asset_marker_denom, Originator),
               cancel_marker(pledge.asset_marker_denom),
               destroy_marker(pledge.asset_marker_denom) >>,
            <<>>, <<>>)

\* mutant: never returns the advance
cancel_pledge_no_refund(escrow_marker, id) ==
  IF id \notin DOMAIN pledges THEN Err("NotFound")
  ELSE LET pledge == pledges[id] IN
  IF pledge.state \notin {"Proposed", "Accepted"} THEN Err("StateError")
  ELSE IF ~EscrowGrantOk(escrow_marker) THEN Err("MissingEscrowMarkerGrant")
  ELSE Resp("Ok",
            save_pledge(pledges, id, [pledge EXCEPT !.state = "Cancelled"]),
            paydowns,
            remove_assets(assets, pledge.assets),
            << transfer_marker_coins(1, pledge.asset_marker_denom, pledge.asset_marker_denom, Originator),
               cancel_marker(pledge.asset_marker_denom),
               destroy_marker(pledge.asset_marker_denom) >>,
            <<>>, <<>>)

\* mutant: forgets the pledge instead of keeping it as Cancelled
cancel_pledge_delete(escrow_marker, id) ==
  IF id \notin DOMAIN pledges THEN Err("NotFound")
  ELSE LET pledge == pledges[id] IN
  IF pledge.state \notin {"Proposed", "Accepted"} THEN Err("StateError")
  ELSE IF ~EscrowGrantOk(escrow_marker) THEN Err("MissingEscrowMarkerGrant")
  ELSE Resp("Ok",
            [i \in (DOMAIN pledges) \ {id} |-> pledges[i]],
            paydowns,
            remove_assets(assets, pledge.assets),
            (IF pledge.state = "Accepted"
             THEN << withdraw_coins(EscrowMarker, pledge.total_advance, Stablecoin, Warehouse) >>
             ELSE <<>>)
              \o << transfer_marker_coins(1, pledge.asset_marker_denom, pledge.asset_marker_denom, Originator),
                    cancel_marker(pledge.asset_marker_denom),
                    destroy_marker(pledge.asset_marker_denom) >>,
            <<>>, <<>>)

\* mutant: takes the marker unit back but neither cancels nor destroys the marker
cancel_pledge_keep_marker(escrow_marker, id) ==
  IF id \notin DOMAIN pledges THEN Err("NotFound")
  ELSE LET pledge == pledges[id] IN
  IF pledge.state \notin {"Proposed", "Accepted"} THEN Err("StateError")
  ELSE IF ~EscrowGrantOk(escrow_marker) THEN Err("MissingEscrowMarkerGrant")
  ELSE LET remove_advance_from_escrow == (pledge.state = "Accepted")
           advance_msgs == IF remove_advance_from_escrow
                           THEN << withdraw_coins(EscrowMarker, pledge.total_advance, Stablecoin, Warehouse) >>
                           ELSE <<>>
           marker_msgs == << transfer_marker_coins(1, pledge.asset_marker_denom, pledge.asset_marker_denom, Originator) >>
       IN Resp("Ok",
               save_pledge(pledges, id, [pledge EXCEPT !.state = "Cancelled"]),
               paydowns,
               remove_assets(assets, pledge.assets),
               advance_msgs \o marker_msgs,
               <<>>, <<>>)

\* mutant: cancels a pledge only while the warehouse has not funded it
cancel_pledge_unfunded(escrow_marker, id) ==
  IF id \notin DOMAIN pledges THEN Err("NotFound")
  ELSE LET pledge == pledges[id] IN
  IF pledge.state \notin {"Proposed"} THEN Err("StateError")
  ELSE IF ~EscrowGrantOk(escrow_marker) THEN Err("MissingEscrowMarkerGrant")
  ELSE LET remove_advance_from_escrow == (pledge.state = "Accepted")
           advance_msgs == IF remove_advance_from_escrow
                           THEN << withdraw_coins(EscrowMarker, pledge.total_advance, Stablecoin, Warehouse) >>
                           ELSE <<>>
           marker_msgs == << transfer_marker_coins(1, pledge.asset_marker_denom, pledge.asset_marker_denom, Originator),
                             cancel_marker(pledge.asset_marker_denom),
                             destroy_marker(pledge.asset_marker_denom) >>
       IN Resp("Ok",
               save_pledge(pledges, id, [pledge EXCEPT !.state = "Cancelled"]),
               paydowns,
               remove_assets(assets, pledge.assets),
               advance_msgs \o marker_msgs,
               <<>>, <<>>)

cancel_pledge(escrow_marker, id) ==
  IF id \notin DOMAIN pledges THEN Err("NotFound")
  ELSE LET pledge == pledges[id] IN
  IF pledge.state \notin {"Proposed", "Accepted"} THEN Err("StateError")
  ELSE IF ~EscrowGrantOk(escrow_marker) THEN Err("MissingEscrowMarkerGrant")
  ELSE LET remove_advance_from_escrow == (pledge.state = "Accepted")
           advance_msgs == IF remove_advance_from_escrow
                           THEN << withdraw_coins(EscrowMarker, pledge.total_advance, Stablecoin, Warehouse) >>
                           ELSE <<>>
           marker_msgs == << transfer_marker_coins(1, pledge.asset_marker_denom, pledge.asset_marker_denom, Originator),
                             cancel_marker(pledge.asset_marker_denom),
                             destroy_marker(pledge.asset_marker_denom) >>
       IN Resp("Ok",
               save_pledge(pledges, id, [pledge EXCEPT !.state = "Cancelled"]),
               paydowns,
               remove_assets(assets, pledge.assets),
               advance_msgs \o marker_msgs,
               <<>>, <<>>)

\* mutant: leaves the assets as the proposal marked them
execute_pledge_keep_assets(escrow_marker, id) ==
  IF id \notin DOMAIN pledges THEN Err("NotFound")
  ELSE LET pledge == pledges[id] IN
  IF pledge.state # "Accepted" THEN Err("StateError")
  ELSE IF ~EscrowGrantOk(escrow_marker) THEN Err("MissingEscrowMarkerGrant")
  ELSE Resp("Ok",
            save_pledge(pledges, id, [pledge EXCEPT !.state = "Executed"]),
            paydowns,
            assets,
            << withdraw_coins(EscrowMarker, pledge.total_advance, Stablecoin, Originator) >>,
            <<>>, <<>>)

\* mutant: withdraws the advance from escrow twice
execute_pledge_twice(escrow_marker, id) ==
  IF id \notin DOMAIN pledges THEN Err("NotFound")
  ELSE LET pledge == pledges[id] IN
  IF pledge.state # "Accepted" THEN Err("StateError")
  ELSE IF ~EscrowGrantOk(escrow_marker) THEN Err("MissingEscrowMarkerGrant")
  ELSE Resp("Ok",
            save_pledge(pledges, id, [pledge EXCEPT !.state = "Executed"]),
            paydowns,
            set_assets_state(assets, "Inventory", pledge.assets),
            << withdraw_coins(EscrowMarker, pledge.total_advance, Stablecoin, Originator),
               withdraw_coins(EscrowMarker, pledge.total_advance, Stablecoin, Originator) >>,
            <<>>, <<>>)

execute_pledge(escrow_marker, id) ==
  IF id \notin DOMAIN pledges THEN Err("NotFound")
  ELSE LET pledge == pledges[id] IN
  IF pledge.state # "Accepted" THEN Err("StateError")
  ELSE IF ~EscrowGrantOk(escrow_marker) THEN Err("MissingEscrowMarkerGrant")
  ELSE Resp("Ok",
            save_pledge(pledges, id, [pledge EXCEPT !.state = "Executed"]),
            paydowns,
            set_assets_state(assets, "Inventory", pledge.assets),
            << withdraw_coins(EscrowMarker, pledge.total_advance, Stablecoin, Originator) >>,
            <<>>, <<>>)

\* --------------------------------------------------------- paydown engine
\* mutant: every paydown is built as a plain paydown
NewPaydown_only(id, asset_ids, total_paydown, kind, sale_info) == [id |-> id, assets |-> asset_ids, total_paydown |-> total_paydown, kind |-> "PaydownOnly", state |-> "Proposed", parties_accepted |-> <<>>, sale_info |-> sale_info]

NewPaydown(id, asset_ids, total_paydown, kind, sale_info) == [id |-> id, assets |-> asset_ids, total_paydown |-> total_paydown, kind |-> kind, state |-> "Proposed", parties_accepted |-> <<>>, sale_info |-> sale_info]

propose_paydown(escrow_marker, id, asset_ids, total_paydown, funds) ==
  IF id \in DOMAIN paydowns THEN Err("PaydownAlreadyExists")
  ELSE IF ~assets_in_inventory(<<"Inventory">>, asset_ids) THEN Err("AssetsNotInInventory")
  ELSE IF ~EscrowGrantOk(escrow_marker) THEN Err("MissingEscrowMarkerGrant")
  ELSE LET paydown == NewPaydown(id, asset_ids, total_paydown, "PaydownOnly", <<>>) IN
  IF Len(funds) = 0 THEN Err("MissingPaydownFunds")
  ELSE IF funds[1].denom # Stablecoin \/ funds[1].amount # paydown.total_paydown
       THEN Err("InsufficientPaydownFunds")
  ELSE Resp("Ok",
            pledges,
            save_paydown(paydowns, id, paydown),
            set_assets_state(assets, "PaydownProposed", paydown.assets),
            << BankSend(EscrowMarker, paydown.total_paydown, Stablecoin) >>,
            find_pledge_ids_with_assets(pledges, paydown.assets, "Executed"),
            <<>>)

propose_paydown_and_sell(escrow_marker, id, asset_ids, total_paydown, buyer, purchase_price, funds) ==
  IF id \in DOMAIN paydowns THEN Err("PaydownAlreadyExists")
  ELSE IF ~assets_in_inventory(<<"Inventory">>, asset_ids) THEN Err("AssetsNotInInventory")
  ELSE IF ~EscrowGrantOk(escrow_marker) THEN Err("MissingEscrowMarkerGrant")
  ELSE LET paydown == NewPaydown(id, asset_ids, total_paydown, "PaydownAndSell",
                                 << [buyer |-> buyer, price |-> purchase_price] >>) IN
  IF Len(funds) = 0 THEN Err("MissingPaydownFunds")
  ELSE IF funds[1].denom # Stablecoin \/ funds[1].amount # paydown.total_paydown
       THEN Err("InsufficientPaydownFunds")
  ELSE Resp("Ok",
            pledges,
            save_paydown(paydowns, id, paydown),
            set_assets_state(assets, "PaydownProposed", paydown.assets),
            << BankSend(EscrowMarker, paydown.total_paydown, Stablecoin) >>,
            find_pledge_ids_with_assets(pledges, paydown.assets, "Executed"),
            <<>>)

\* the party the sender accepts as: <<party>>, or <<>> when the sender has no right to accept
\* mutant: every sender other than the warehouse accepts a paydown-and-sell as the buyer
accepting_party_any_buyer(paydown, sender) ==
  IF paydown.kind = "PaydownOnly"
  THEN (IF Warehouse # sender THEN <<>> ELSE <<"Warehouse">>)
  ELSE (IF Warehouse = sender THEN <<"Warehouse">> ELSE <<"Buyer">>)

accepting_party(paydown, sender) ==
  IF paydown.kind = "PaydownOnly"
  THEN (IF Warehouse # sender THEN <<>> ELSE <<"Warehouse">>)
  ELSE (IF Warehouse = sender THEN <<"Warehouse">>
        ELSE IF paydown.sale_info[1].buyer = sender THEN <<"Buyer">>
        ELSE <<>>)

\* mutant: one of the two parties is enough for a paydown-and-sell
accepted_state_either(paydown, parties) ==
  IF paydown.kind = "PaydownOnly"
  THEN (IF vec_contains(Range(parties), {"Warehouse"}) THEN "Accepted" ELSE paydown.state)
  ELSE (IF vec_has_any(Range(parties), {"Warehouse", "Buyer"}) THEN "Accepted" ELSE paydown.state)

\* the state after the accepting party was pushed to parties_accepted
accepted_state(paydown, parties) ==
  IF paydown.kind = "PaydownOnly"
  THEN (IF vec_contains(Range(parties), {"Warehouse"}) THEN "Accepted" ELSE paydown.state)
  ELSE (IF vec_contains(Range(parties), {"Warehouse", "Buyer"}) THEN "Accepted" ELSE paydown.state)

\* mutant: looks at the paydown's state before it looks for a repeated acceptance
accept_paydown_state_first(escrow_marker, id, sender, funds) ==
  IF id \notin DOMAIN paydowns THEN Err("NotFound")
  ELSE LET paydown == paydowns[id]
           party == accepting_party(paydown, sender) IN
  IF party = <<>> THEN Err("Unauthorized")
  ELSE IF paydown.state # "Proposed" THEN Err("StateError")
  ELSE IF party[1] \in Range(paydown.parties_accepted) THEN Err("PaydownPartyAlreadyAccepted")
  ELSE IF ~EscrowGrantOk(escrow_marker) THEN Err("MissingEscrowMarkerGrant")
  ELSE IF party[1] = "Buyer" /\ Len(funds) = 0 THEN Err("MissingPurchaseFunds")
  ELSE IF party[1] = "Buyer" /\ (funds[1].denom # Stablecoin \/ funds[1].amount # paydown.sale_info[1].price)
       THEN Err("InsufficientPurchaseFunds")
  ELSE LET messages == IF party[1] = "Buyer"
                       THEN << BankSend(EscrowMarker, paydown.sale_info[1].price, Stablecoin) >>
                       ELSE <<>>
           parties == Append(paydown.parties_accepted, party[1])
       IN Resp("Ok",
               pledges,
               save_paydown(paydowns, id, [paydown EXCEPT !.parties_accepted = parties,
                                                          !.state = accepted_state(paydown, parties)]),
               assets, messages, <<>>, <<>>)

accept_paydown(escrow_marker, id, sender, funds) ==
  IF id \notin DOMAIN paydowns THEN Err("NotFound")
  ELSE LET paydown == paydowns[id]
           party == accepting_party(paydown, sender) IN
  IF party = <<>> THEN Err("Unauthorized")
  ELSE IF party[1] \in Range(paydown.parties_accepted) THEN Err("PaydownPartyAlreadyAccepted")
  ELSE IF paydown.state # "Proposed" THEN Err("StateError")
  ELSE IF ~EscrowGrantOk(escrow_marker) THEN Err("MissingEscrowMarkerGrant")
  ELSE IF party[1] = "Buyer" /\ Len(funds) = 0 THEN Err("MissingPurchaseFunds")
  ELSE IF party[1] = "Buyer" /\ (funds[1].denom # Stablecoin \/ funds[1].amount # paydown.sale_info[1].price)
       THEN Err("InsufficientPurchaseFunds")
  ELSE LET messages == IF party[1] = "Buyer"
                       THEN << BankSend(EscrowMarker, paydown.sale_info[1].price, Stablecoin) >>
                       ELSE <<>>
           parties == Append(paydown.parties_accepted, party[1])
       IN Resp("Ok",
               pledges,
               save_paydown(paydowns, id, [paydown EXCEPT !.parties_accepted = parties,
                                                          !.state = accepted_state(paydown, parties)]),
               assets, messages, <<>>, <<>>)

\* mutant: cancels a paydown in whatever state it is
cancel_paydown_any_state(escrow_marker, id) ==
  IF id \notin DOMAIN paydowns THEN Err("NotFound")
  ELSE LET paydown == paydowns[id] IN
  IF ~EscrowGrantOk(escrow_marker) THEN Err("MissingEscrowMarkerGrant")
  ELSE Resp("Ok",
            pledges,
            save_paydown(paydowns, id, [paydown EXCEPT !.state = "Cancelled"]),
            set_assets_state(assets, "Inventory", paydown.assets),
            << withdraw_coins(EscrowMarker, paydown.total_paydown, Stablecoin, Originator) >>,
            <<>>, <<>>)

\* mutant: returns the purchase price of every paydown-and-sell, accepted by the buyer or not
cancel_paydown_refund_sale(escrow_marker, id) ==
  IF id \notin DOMAIN paydowns THEN Err("NotFound")
  ELSE LET paydown == paydowns[id] IN
  IF paydown.state \notin {"Proposed", "Accepted"} THEN Err("StateError")
  ELSE IF ~EscrowGrantOk(escrow_marker) THEN Err("MissingEscrowMarkerGrant")
  ELSE LET purchase_msgs == IF paydown.kind = "PaydownAndSell"
                            THEN << withdraw_coins(EscrowMarker, paydown.sale_info[1].price, Stablecoin, paydown.sale_info[1].buyer) >>
                            ELSE <<>>
       IN Resp("Ok",
               pledges,
               save_paydown(paydowns, id, [paydown EXCEPT !.state = "Cancelled"]),
               set_assets_state(assets, "Inventory", paydown.assets),
               << withdraw_coins(EscrowMarker, paydown.total_paydown, Stablecoin, Originator) >> \o purchase_msgs,
               <<>>, <<>>)

\* mutant: removes the asset records of the cancelled paydown
cancel_paydown_drop_assets(escrow_marker, id) ==
  IF id \notin DOMAIN paydowns THEN Err("NotFound")
  ELSE LET paydown == paydowns[id] IN
  IF paydown.state \notin {"Proposed", "Accepted"} THEN Err("StateError")
  ELSE IF ~EscrowGrantOk(escrow_marker) THEN Err("MissingEscrowMarkerGrant")
  ELSE LET purchase_msgs == IF paydown.kind = "PaydownAndSell"
                               /\ vec_contains(Range(paydown.parties_accepted), {"Buyer"})
                            THEN << withdraw_coins(EscrowMarker, paydown.sale_info[1].price, Stablecoin, paydown.sale_info[1].buyer) >>
                            ELSE <<>>
       IN Resp("Ok",
               pledges,
               save_paydown(paydowns, id, [paydown EXCEPT !.state = "Cancelled"]),
               remove_assets(assets, paydown.assets),
               << withdraw_coins(EscrowMarker, paydown.total_paydown, Stablecoin, Originator) >> \o purchase_msgs,
               <<>>, <<>>)

cancel_paydown(escrow_marker, id) ==
  IF id \notin DOMAIN paydowns THEN Err("NotFound")
  ELSE LET paydown == paydowns[id] IN
  IF paydown.state \notin {"Proposed", "Accepted"} THEN Err("StateError")
  ELSE IF ~EscrowGrantOk(escrow_marker) THEN Err("MissingEscrowMarkerGrant")
  ELSE LET purchase_msgs == IF paydown.kind = "PaydownAndSell"
                               /\ vec_contains(Range(paydown.parties_accepted), {"Buyer"})
                            THEN << withdraw_coins(EscrowMarker, paydown.sale_info[1].price, Stablecoin, paydown.sale_info[1].buyer) >>
                            ELSE <<>>
       IN Resp("Ok",
               pledges,
               save_paydown(paydowns, id, [paydown EXCEPT !.state = "Cancelled"]),
               set_assets_state(assets, "Inventory", paydown.assets),
               << withdraw_coins(EscrowMarker, paydown.total_paydown, Stablecoin, Originator) >> \o purchase_msgs,
               <<>>, <<>>)

\* the marker instructions pushed for each closed pledge, in the order of closed_pledges
RECURSIVE close_messages(_, _)
close_messages(pl, closed) ==
  IF closed = <<>> THEN <<>>
  ELSE LET pledge == pl[Head(closed)]
       IN << transfer_marker_coins(1, pledge.asset_marker_denom, pledge.asset_marker_denom, Originator),
             cancel_marker(pledge.asset_marker_denom),
             destroy_marker(pledge.asset_marker_denom) >> \o close_messages(pl, Tail(closed))

\* mutant: never pays the purchase price out to the originator
execute_paydown_no_sale(escrow_marker, id) ==
  IF id \notin DOMAIN paydowns THEN Err("NotFound")
  ELSE LET paydown == paydowns[id] IN
  IF paydown.state # "Accepted" THEN Err("StateError")
  ELSE IF ~EscrowGrantOk(escrow_marker) THEN Err("MissingEscrowMarkerGrant")
  ELSE LET assets_after == remove_assets(assets, paydown.assets)
           inventory == list_inventory(assets_after)
           affected_pledges == find_pledge_ids_with_assets(pledges, paydown.assets, "Executed")
           closed_pledges == SelectSeq(affected_pledges, LAMBDA p : ~vec_has_any(inventory, pledges[p].assets))
           pledges_after == [p \in DOMAIN pledges |->
                               IF p \in Range(closed_pledges)
                               THEN [pledges[p] EXCEPT !.state = "Closed"]
                               ELSE pledges[p]]
       IN Resp("Ok",
               pledges_after,
               save_paydown(paydowns, id, [paydown EXCEPT !.state = "Executed"]),
               assets_after,
               << withdraw_coins(EscrowMarker, paydown.total_paydown, Stablecoin, Warehouse) >>
                 \o close_messages(pledges, closed_pledges),
               affected_pledges, closed_pledges)

\* mutant: takes every pledge that lists one of the assets for an affected one, whatever its state
execute_paydown_any_pledge(escrow_marker, id) ==
  IF id \notin DOMAIN paydowns THEN Err("NotFound")
  ELSE LET paydown == paydowns[id] IN
  IF paydown.state # "Accepted" THEN Err("StateError")
  ELSE IF ~EscrowGrantOk(escrow_marker) THEN Err("MissingEscrowMarkerGrant")
  ELSE LET sale_msgs == IF paydown.kind = "PaydownAndSell"
                        THEN << withdraw_coins(EscrowMarker, paydown.sale_info[1].price, Stablecoin, Originator) >>
                        ELSE <<>>
           assets_after == remove_assets(assets, paydown.assets)
           inventory == list_inventory(assets_after)
           affected_pledges == SortedSeq({i \in DOMAIN pledges : vec_has_any(pledges[i].assets, paydown.assets)})
           closed_pledges == SelectSeq(affected_pledges, LAMBDA p : ~vec_has_any(inventory, pledges[p].assets))
           pledges_after == [p \in DOMAIN pledges |->
                               IF p \in Range(closed_pledges)
                               THEN [pledges[p] EXCEPT !.state = "Closed"]
                               ELSE pledges[p]]
       IN Resp("Ok",
               pledges_after,
               save_paydown(paydowns, id, [paydown EXCEPT !.state = "Executed"]),
               assets_after,
               << withdraw_coins(EscrowMarker, paydown.total_paydown, Stablecoin, Warehouse) >>
                 \o sale_msgs \o close_messages(pledges, closed_pledges),
               affected_pledges, closed_pledges)

\* mutant: retires the marker of the first closed pledge only
execute_paydown_retire_first(escrow_marker, id) ==
  IF id \notin DOMAIN paydowns THEN Err("NotFound")
  ELSE LET paydown == paydowns[id] IN
  IF paydown.state # "Accepted" THEN Err("StateError")
  ELSE IF ~EscrowGrantOk(escrow_marker) THEN Err("MissingEscrowMarkerGrant")
  ELSE LET sale_msgs == IF paydown.kind = "PaydownAndSell"
                        THEN << withdraw_coins(EscrowMarker, paydown.sale_info[1].price, Stablecoin, Originator) >>
                        ELSE <<>>
           assets_after == remove_assets(assets, paydown.assets)
           inventory == list_inventory(assets_after)
           affected_pledges == find_pledge_ids_with_assets(pledges, paydown.assets, "Executed")
           closed_pledges == SelectSeq(affected_pledges, LAMBDA p : ~vec_has_any(inventory, pledges[p].assets))
           pledges_after == [p \in DOMAIN pledges |->
                               IF p \in Range(closed_pledges)
                               THEN [pledges[p] EXCEPT !.state = "Closed"]
                               ELSE pledges[p]]
       IN Resp("Ok",
               pledges_after,
               save_paydown(paydowns, id, [paydown EXCEPT !.state = "Executed"]),
               assets_after,
               << withdraw_coins(EscrowMarker, paydown.total_paydown, Stablecoin, Warehouse) >>
                 \o sale_msgs \o close_messages(pledges, SelectSeq(closed_pledges, LAMBDA p : p = closed_pledges[1])),
               affected_pledges, closed_pledges)

\* mutant: closes only the pledges whose whole asset list is in this paydown
execute_paydown_whole_pledge(escrow_marker, id) ==
  IF id \notin DOMAIN paydowns THEN Err("NotFound")
  ELSE LET paydown == paydowns[id] IN
  IF paydown.state # "Accepted" THEN Err("StateError")
  ELSE IF ~EscrowGrantOk(escrow_marker) THEN Err("MissingEscrowMarkerGrant")
  ELSE LET sale_msgs == IF paydown.kind = "PaydownAndSell"
                        THEN << withdraw_coins(EscrowMarker, paydown.sale_info[1].price, Stablecoin, Originator) >>
                        ELSE <<>>
           assets_after == remove_assets(assets, paydown.assets)
           inventory == list_inventory(assets_after)
           affected_pledges == find_pledge_ids_with_assets(pledges, paydown.assets, "Executed")
           closed_pledges == SelectSeq(affected_pledges, LAMBDA p : vec_contains(paydown.assets, pledges[p].assets))
           pledges_after == [p \in DOMAIN pledges |->
                               IF p \in Range(closed_pledges)
                               THEN [pledges[p] EXCEPT !.state = "Closed"]
                               ELSE pledges[p]]
       IN Resp("Ok",
               pledges_after,
               save_paydown(paydowns, id, [paydown EXCEPT !.state = "Executed"]),
               assets_after,
               << withdraw_coins(EscrowMarker, paydown.total_paydown, Stablecoin, Warehouse) >>
                 \o sale_msgs \o close_messages(pledges, closed_pledges),
               affected_pledges, closed_pledges)

execute_paydown(escrow_marker, id) ==
  IF id \notin DOMAIN paydowns THEN Err("NotFound")
  ELSE LET paydown == paydowns[id] IN
  IF paydown.state # "Accepted" THEN Err("StateError")
  ELSE IF ~EscrowGrantOk(escrow_marker) THEN Err("MissingEscrowMarkerGrant")
  ELSE LET sale_msgs == IF paydown.kind = "PaydownAndSell"
                        THEN << withdraw_coins(EscrowMarker, paydown.sale_info[1].price, Stablecoin, Originator) >>
                        ELSE <<>>
           assets_after == remove_assets(assets, paydown.assets)
           inventory == list_inventory(assets_after)
           affected_pledges == find_pledge_ids_with_assets(pledges, paydown.assets, "Executed")
           closed_pledges == SelectSeq(affected_pledges, LAMBDA p : ~vec_has_any(inventory, pledges[p].assets))
           pledges_after == [p \in DOMAIN pledges |->
                               IF p \in Range(closed_pledges)
                               THEN [pledges[p] EXCEPT !.state = "Closed"]
                               ELSE pledges[p]]
       IN Resp("Ok",
               pledges_after,
               save_paydown(paydowns, id, [paydown EXCEPT !.state = "Executed"]),
               assets_after,
               << withdraw_coins(EscrowMarker, paydown.total_paydown, Stablecoin, Warehouse) >>
                 \o sale_msgs \o close_messages(pledges, closed_pledges),
               affected_pledges, closed_pledges)

\* ---------------------------------------------------------------- actions
Empty == [x \in {} |-> x]

Init ==
  /\ pledges = Empty
  /\ paydowns = Empty
  /\ assets = Empty
  /\ removed_by_paydown = {}
  /\ escrow_net = 0
  /\ schedule = "any"
  /\ config = NotInstantiated
  /\ capital_sent = 0
  /\ transfers = Empty
  /\ requested = NoneCounted
  /\ released = NoneCounted

\* what the instructions of one response add to the escrow marker's settlement currency:
\* the bank sends to it less the withdrawals from it
RECURSIVE escrow_flow(_)
escrow_flow(messages) ==
  IF messages = <<>> THEN 0
  ELSE LET x == Head(messages)
       IN (IF x.msg = "send" /\ x.to = EscrowMarker /\ x.denom = Stablecoin THEN x.amount
           ELSE IF x.msg = "withdraw_coins" /\ x.marker = EscrowMarker /\ x.denom = Stablecoin THEN 0 - x.amount
           ELSE 0) + escrow_flow(Tail(messages))

\* the execute entry point persists the ledger the handler leaves
Install(r) ==
  /\ pledges' = r.pledges
  /\ paydowns' = r.paydowns
  /\ assets' = r.assets
  /\ escrow_net' = escrow_net + escrow_flow(r.messages)
  /\ UNCHANGED <<schedule, config, capital_sent, transfers, requested, released>>

ProposePledge ==
  \E m \in EscrowMarkers, id \in PledgeIds, a \in AssetLists, n \in Amounts :
    /\ Install(propose_pledge(m, id, a, n, MarkerDenom(id)))
    /\ UNCHANGED removed_by_paydown

AcceptPledge ==
  \E m \in EscrowMarkers, id \in PledgeIds, f \in FundsSet :
    /\ Install(accept_pledge(m, id, f))
    /\ UNCHANGED removed_by_paydown

CancelPledge ==
  \E m \in EscrowMarkers, id \in PledgeIds :
    /\ Install(cancel_pledge(m, id))
    /\ UNCHANGED removed_by_paydown

ExecutePledge ==
  \E m \in EscrowMarkers, id \in PledgeIds :
    LET r == execute_pledge(m, id)
    IN /\ Install(r)
       /\ removed_by_paydown' = IF r.err = "Ok" THEN removed_by_paydown \ pledges[id].assets
                                 ELSE removed_by_paydown

ProposePaydown ==
  \E m \in EscrowMarkers, id \in PaydownIds, a \in AssetLists, n \in Amounts, f \in FundsSet :
    /\ Install(propose_paydown(m, id, a, n, f))
    /\ UNCHANGED removed_by_paydown

ProposePaydownAndSell ==
  \E m \in EscrowMarkers, id \in PaydownIds, a \in AssetLists, n \in Amounts, b \in Buyers, price \in Amounts, f \in FundsSet :
    /\ Install(propose_paydown_and_sell(m, id, a, n, b, price, f))
    /\ UNCHANGED removed_by_paydown

AcceptPaydown ==
  \E m \in EscrowMarkers, id \in PaydownIds, s \in Senders, f \in FundsSet :
    /\ Install(accept_paydown(m, id, s, f))
    /\ UNCHANGED removed_by_paydown

CancelPaydown ==
  \E m \in EscrowMarkers, id \in PaydownIds :
    /\ Install(cancel_paydown(m, id))
    /\ UNCHANGED removed_by_paydown

ExecutePaydown ==
  \E m \in EscrowMarkers, id \in PaydownIds :
    LET r == execute_paydown(m, id)
    IN /\ Install(r)
       /\ removed_by_paydown' = IF r.err = "Ok" THEN removed_by_paydown \cup paydowns[id].assets
                                 ELSE removed_by_paydown

Next ==
  \/ ProposePledge
  \/ AcceptPledge
  \/ CancelPledge
  \/ ExecutePledge
  \/ ProposePaydown
  \/ ProposePaydownAndSell
  \/ AcceptPaydown
  \/ CancelPaydown
  \/ ExecutePaydown

Spec == Init /\ [][Next]_vars

\* ------------------------------------------------------------- properties
PledgeEdges == { <<"Proposed", "Accepted">>, <<"Proposed", "Cancelled">>, <<"Accepted", "Executed">>,
                 <<"Accepted", "Cancelled">>, <<"Executed", "Closed">> }

PaydownEdges == { <<"Proposed", "Accepted">>, <<"Proposed", "Cancelled">>, <<"Accepted", "Executed">>,
                  <<"Accepted", "Cancelled">> }

WithState(records, states) == {i \in DOMAIN records : records[i].state \in states}

\* the stored records in one of the states that reference the asset
Referencing(records, states, a) == {i \in WithState(records, states) : a \in records[i].assets}

FullGrant == << AccessGrant(Contract, {"Admin", "Transfer", "Withdraw"}) >>

PartialGrant == << AccessGrant(Contract, {"Transfer"}) >>

\* C1: in every step each stored pledge keeps its state or moves along one of the edges
\* Proposed->Accepted, Proposed->Cancelled, Accepted->Executed, Accepted->Cancelled,
\* Executed->Closed; Cancelled and Closed have no outgoing edge.
C1_PledgeTransitions ==
  [][\A id \in DOMAIN pledges :
        /\ id \in DOMAIN pledges'
        /\ \/ pledges'[id].state = pledges[id].state
           \/ <<pledges[id].state, pledges'[id].state>> \in PledgeEdges]_vars

\* a pledge has gone Proposed->Accepted->Executed->Closed while another one was cancelled
C1_Witness ==
  /\ WithState(pledges, {"Closed"}) # {}
  /\ WithState(pledges, {"Cancelled"}) # {}

\* C2: in every step each stored paydown keeps its state or moves along one of the edges
\* Proposed->Accepted, Proposed->Cancelled, Accepted->Executed, Accepted->Cancelled;
\* Executed and Cancelled have no outgoing edge.
C2_PaydownTransitions ==
  [][\A id \in DOMAIN paydowns :
        /\ id \in DOMAIN paydowns'
        /\ \/ paydowns'[id].state = paydowns[id].state
           \/ <<paydowns[id].state, paydowns'[id].state>> \in PaydownEdges]_vars

\* one paydown was executed and another one cancelled after being accepted by the warehouse
C2_Witness ==
  /\ WithState(paydowns, {"Executed"}) # {}
  /\ \E id \in WithState(paydowns, {"Cancelled"}) : paydowns[id].parties_accepted # <<>>

\* C3: every asset id is referenced by at most one pledge in state Proposed, Accepted or Executed
C3_OneOpenPledgePerAsset ==
  \A a \in AssetIds : Cardinality(Referencing(pledges, {"Proposed", "Accepted", "Executed"}, a)) <= 1

\* C4: every asset id is referenced by at most one paydown in state Proposed or Accepted
C4_OneOpenPaydownPerAsset ==
  \A a \in AssetIds : Cardinality(Referencing(paydowns, {"Proposed", "Accepted"}, a)) <= 1

\* a paydown over an asset was cancelled and a second paydown over the same asset is open
C4_Witness ==
  \E a \in AssetIds :
    /\ Referencing(paydowns, {"Cancelled"}, a) # {}
    /\ Referencing(paydowns, {"Proposed", "Accepted"}, a) # {}

\* C5: an asset is recorded as PledgeProposed iff a pledge in state Proposed or Accepted
\* references it, and as PaydownProposed iff a paydown in state Proposed or Accepted does
C5_AssetsAgreeWithReservations ==
  \A a \in AssetIds :
    /\ (a \in DOMAIN assets /\ assets[a] = "PledgeProposed")
         <=> Referencing(pledges, {"Proposed", "Accepted"}, a) # {}
    /\ (a \in DOMAIN assets /\ assets[a] = "PaydownProposed")
         <=> Referencing(paydowns, {"Proposed", "Accepted"}, a) # {}

\* one asset is reserved by an open pledge, another by an open paydown, and an earlier
\* paydown has been cancelled
C5_Witness ==
  /\ \E a \in DOMAIN assets : assets[a] = "PledgeProposed"
  /\ \E a \in DOMAIN assets : assets[a] = "PaydownProposed"
  /\ WithState(paydowns, {"Cancelled"}) # {}

AllStates == {"Proposed", "Accepted", "Executed", "Closed", "Cancelled"}

ExecutedPledgeAssets == UNION {pledges[p].assets : p \in WithState(pledges, {"Executed"})}

Responses(op) ==
  CASE op = "ProposePledge" ->
         {propose_pledge(m, id, a, n, MarkerDenom(id)) : m \in EscrowMarkers, id \in PledgeIds, a \in AssetLists, n \in Amounts}
    [] op = "AcceptPledge" ->
         {accept_pledge(m, id, f) : m \in EscrowMarkers, id \in PledgeIds, f \in FundsSet}
    [] op = "CancelPledge" ->
         {cancel_pledge(m, id) : m \in EscrowMarkers, id \in PledgeIds}
    [] op = "ExecutePledge" ->
         {execute_pledge(m, id) : m \in EscrowMarkers, id \in PledgeIds}
    [] op = "ProposePaydown" ->
         {propose_paydown(m, id, a, n, f) : m \in EscrowMarkers, id \in PaydownIds, a \in AssetLists, n \in Amounts, f \in FundsSet}
    [] op = "ProposePaydownAndSell" ->
         {propose_paydown_and_sell(m, id, a, n, b, price, f) : m \in EscrowMarkers, id \in PaydownIds, a \in AssetLists, n \in Amounts, b \in Buyers, price \in Amounts, f \in FundsSet}
    [] op = "AcceptPaydown" ->
         {accept_paydown(m, id, s, f) : m \in EscrowMarkers, id \in PaydownIds, s \in Senders, f \in FundsSet}
    [] op = "CancelPaydown" ->
         {cancel_paydown(m, id) : m \in EscrowMarkers, id \in PaydownIds}
    [] op = "ExecutePaydown" ->
         {execute_paydown(m, id) : m \in EscrowMarkers, id \in PaydownIds}

Operations == {"ProposePledge", "AcceptPledge", "CancelPledge", "ExecutePledge", "ProposePaydown",
               "ProposePaydownAndSell", "AcceptPaydown", "CancelPaydown", "ExecutePaydown"}

LedgerUnchanged(r) == r.pledges = pledges /\ r.paydowns = paydowns /\ r.assets = assets

NoGrantMarkers ==
  {m \in EscrowMarkers : ~ \E i \in DOMAIN m : m[i].address = Contract /\ {"Transfer", "Withdraw"} \subseteq m[i].permissions}

RejectedForGrant(r) == r.err = "MissingEscrowMarkerGrant" /\ LedgerUnchanged(r) /\ r.messages = <<>>

\* the party a sender is entitled to accept a paydown as: {} when it is not entitled
EntitledAs(paydown, sender) ==
  IF sender = Warehouse THEN {"Warehouse"}
  ELSE IF paydown.kind = "PaydownAndSell" /\ sender = paydown.sale_info[1].buyer THEN {"Buyer"}
  ELSE {}

AllInState(ids, state) == \A a \in ids : a \in DOMAIN assets /\ assets[a] = state

\* C8: without Transfer and Withdraw on the escrow marker, each money-moving operation whose
\* earlier preconditions hold fails with MissingEscrowMarkerGrant and changes no record
C8_MissingGrantRejects ==
  \A m \in NoGrantMarkers :
    /\ \A id \in PledgeIds \ DOMAIN pledges, a \in AssetLists, n \in Amounts :
         a \cap DOMAIN assets = {} => RejectedForGrant(propose_pledge(m, id, a, n, MarkerDenom(id)))
    /\ \A id \in WithState(pledges, {"Proposed"}), f \in FundsSet :
         RejectedForGrant(accept_pledge(m, id, f))
    /\ \A id \in WithState(pledges, {"Accepted"}) :
         RejectedForGrant(execute_pledge(m, id))
    /\ \A id \in PaydownIds \ DOMAIN paydowns, a \in AssetLists, n \in Amounts, f \in FundsSet :
         AllInState(a, "Inventory") =>
           /\ RejectedForGrant(propose_paydown(m, id, a, n, f))
           /\ \A b \in Buyers, price \in Amounts :
                RejectedForGrant(propose_paydown_and_sell(m, id, a, n, b, price, f))
    /\ \A id \in WithState(paydowns, {"Proposed"}), s \in Senders, f \in FundsSet :
         (/\ EntitledAs(paydowns[id], s) # {}
          /\ EntitledAs(paydowns[id], s) \cap Range(paydowns[id].parties_accepted) = {})
         => RejectedForGrant(accept_paydown(m, id, s, f))
    /\ \A id \in WithState(paydowns, {"Proposed", "Accepted"}) :
         RejectedForGrant(cancel_paydown(m, id))
    /\ \A id \in WithState(paydowns, {"Accepted"}) :
         RejectedForGrant(execute_paydown(m, id))

\* an Accepted pledge and an Accepted paydown are stored, and with only Transfer granted
\* neither can be executed
C8_Witness ==
  /\ \E id \in WithState(pledges, {"Accepted"}) :
       execute_pledge(PartialGrant, id).err = "MissingEscrowMarkerGrant"
  /\ \E id \in WithState(paydowns, {"Accepted"}) :
       execute_paydown(PartialGrant, id).err = "MissingEscrowMarkerGrant"

\* C9 as stated: ProposePledge fails with AssetsAlreadyPledged and changes nothing whenever
\* one of the listed assets has a record
C9_AnyRecordedAssetRejects ==
  \A m \in EscrowMarkers, id \in PledgeIds, a \in AssetLists, n \in Amounts :
    LET r == propose_pledge(m, id, a, n, MarkerDenom(id))
    IN a \cap DOMAIN assets # {} => r.err = "AssetsAlreadyPledged" /\ LedgerUnchanged(r)

\* C9 amended: ProposePledge with an id that is not stored yet fails with AssetsAlreadyPledged
\* exactly when one of the listed assets has a record, in whatever state, and then changes
\* nothing; with a stored id and a recorded asset it fails too and changes nothing
C9_FreshIdRecordedAssetRejects ==
  \A m \in EscrowMarkers, id \in PledgeIds, a \in AssetLists, n \in Amounts :
    LET r == propose_pledge(m, id, a, n, MarkerDenom(id))
    IN /\ id \notin DOMAIN pledges => (r.err = "AssetsAlreadyPledged" <=> a \cap DOMAIN assets # {})
       /\ a \cap DOMAIN assets # {} => r.err # "Ok" /\ LedgerUnchanged(r)

\* one asset is under a proposed paydown and one is unrecorded: a new pledge over both is
\* rejected, a new pledge over the unrecorded one passes the asset check
C9_Witness ==
  \E id \in PledgeIds \ DOMAIN pledges, a \in DOMAIN assets, b \in AssetIds \ DOMAIN assets :
    /\ assets[a] = "PaydownProposed"
    /\ propose_pledge(FullGrant, id, {a, b}, 1, MarkerDenom(id)).err = "AssetsAlreadyPledged"
    /\ propose_pledge(FullGrant, id, {b}, 1, MarkerDenom(id)).err = "Ok"

\* C10: ProposePledge with a stored id fails with PledgeAlreadyExists in whatever state the
\* pledge is and changes no record; no step removes a pledge or changes anything but its state
C10_PledgeIdNeverReused ==
  /\ [](\A m \in EscrowMarkers, id \in DOMAIN pledges, a \in AssetLists, n \in Amounts :
          LET r == propose_pledge(m, id, a, n, MarkerDenom(id))
          IN r.err = "PledgeAlreadyExists" /\ LedgerUnchanged(r))
  /\ [][\A id \in DOMAIN pledges :
          /\ id \in DOMAIN pledges'
          /\ [pledges'[id] EXCEPT !.state = pledges[id].state] = pledges[id]]_vars

\* a Closed and a Cancelled pledge are stored and their ids are refused for a new pledge
\* over assets that have no record
C10_Witness ==
  \E c \in WithState(pledges, {"Closed"}), d \in WithState(pledges, {"Cancelled"}), a \in AssetLists :
    /\ a \cap DOMAIN assets = {}
    /\ propose_pledge(FullGrant, c, a, 1, MarkerDenom(c)).err = "PledgeAlreadyExists"
    /\ propose_pledge(FullGrant, d, a, 1, MarkerDenom(d)).err = "PledgeAlreadyExists"

\* exactly the amount in the settlement denom and nothing else
ExactFunds(amount) == << Coin(Stablecoin, amount) >>

\* C11: with the escrow grant held, AcceptPledge on a Proposed pledge moves it to Accepted and
\* emits the one send of total_advance to escrow if and only if the attached funds are exactly
\* total_advance of the settlement denom; with any other funds it fails with a funds error,
\* the pledge stays Proposed and nothing is emitted
C11_AcceptPledgeIffExactFunds ==
  \A id \in WithState(pledges, {"Proposed"}), f \in FundsSet :
    LET r == accept_pledge(FullGrant, id, f)
        advance == pledges[id].total_advance
    IN IF f = ExactFunds(advance)
       THEN /\ r.err = "Ok"
            /\ r.pledges[id].state = "Accepted"
            /\ r.messages = << BankSend(EscrowMarker, advance, Stablecoin) >>
       ELSE /\ r.err \in {"MissingPledgeAdvanceFunds", "InsufficientPledgeAdvanceFunds"}
            /\ r.pledges[id].state = "Proposed"
            /\ r.messages = <<>>

\* the marker instructions of a cancelled or closed pledge
RetireMarker(denom) ==
  << transfer_marker_coins(1, denom, denom, Originator), cancel_marker(denom), destroy_marker(denom) >>

\* C12: a successful CancelPledge leaves the pledge Cancelled and none of its assets recorded,
\* always emits the transfer, cancel and destroy of the pledge's marker, and before them the
\* withdrawal of total_advance from escrow to the warehouse iff the pledge was Accepted
C12_CancelPledgeEffects ==
  \A m \in EscrowMarkers, id \in PledgeIds :
    LET r == cancel_pledge(m, id)
    IN r.err = "Ok" =>
         /\ r.pledges[id].state = "Cancelled"
         /\ pledges[id].assets \cap DOMAIN r.assets = {}
         /\ \A a \in DOMAIN assets \ pledges[id].assets : a \in DOMAIN r.assets /\ r.assets[a] = assets[a]
         /\ r.messages =
              (IF pledges[id].state = "Accepted"
               THEN << withdraw_coins(EscrowMarker, pledges[id].total_advance, Stablecoin, Warehouse) >>
               ELSE <<>>) \o RetireMarker(pledges[id].asset_marker_denom)

\* one pledge was cancelled while Accepted or Proposed and a second one, Accepted, can be
\* cancelled with its advance returned
C12_Witness ==
  /\ WithState(pledges, {"Cancelled"}) # {}
  /\ \E id \in WithState(pledges, {"Accepted"}) :
       /\ cancel_pledge(FullGrant, id).err = "Ok"
       /\ Len(cancel_pledge(FullGrant, id).messages) = 4

C14_ExecutePledgeEffects ==
  \A m \in EscrowMarkers, id \in DOMAIN pledges :
    LET r == execute_pledge(m, id)
    IN /\ pledges[id].state # "Accepted" => r.err = "StateError" /\ LedgerUnchanged(r)
       /\ (pledges[id].state = "Accepted" /\ m \notin NoGrantMarkers) => r.err = "Ok"
       /\ r.err = "Ok" =>
            /\ pledges[id].state = "Accepted"
            /\ r.pledges[id].state = "Executed"
            /\ \A a \in pledges[id].assets : a \in DOMAIN r.assets /\ r.assets[a] = "Inventory"
            /\ r.messages = << withdraw_coins(EscrowMarker, pledges[id].total_advance, Stablecoin, Originator) >>

\* a pledge over two assets has been executed, both are in the inventory, and executing it
\* again fails
C14_Witness ==
  \E id \in WithState(pledges, {"Executed"}) :
    /\ Cardinality(pledges[id].assets) = 2
    /\ AllInState(pledges[id].assets, "Inventory")
    /\ execute_pledge(FullGrant, id).err = "StateError"

\* the responses of both kinds of paydown proposal to one id, asset list and escrow snapshot
PaydownProposals(m, id, a) ==
  {propose_paydown(m, id, a, n, f) : n \in Amounts, f \in FundsSet}
    \cup {propose_paydown_and_sell(m, id, a, n, b, price, f) :
            n \in Amounts, b \in Buyers, price \in Amounts, f \in FundsSet}

\* C15 as stated: both proposals fail with AssetsNotInInventory, changing nothing, unless
\* every listed asset is recorded as Inventory
C15_NotInInventoryRejects ==
  \A m \in EscrowMarkers, id \in PaydownIds, a \in AssetLists :
    \A r \in PaydownProposals(m, id, a) :
      /\ ~AllInState(a, "Inventory") => r.err = "AssetsNotInInventory" /\ LedgerUnchanged(r)
      /\ AllInState(a, "Inventory") => r.err # "AssetsNotInInventory"

\* C15 amended: with an id for which no paydown is stored, both proposals fail with
\* AssetsNotInInventory, changing nothing, unless every listed asset is recorded as
\* Inventory; with a stored id they fail with PaydownAlreadyExists
C15_FreshIdNotInInventoryRejects ==
  \A m \in EscrowMarkers, id \in PaydownIds, a \in AssetLists :
    \A r \in PaydownProposals(m, id, a) :
      /\ id \in DOMAIN paydowns => r.err = "PaydownAlreadyExists" /\ LedgerUnchanged(r)
      /\ (id \notin DOMAIN paydowns /\ ~AllInState(a, "Inventory")) =>
            r.err = "AssetsNotInInventory" /\ LedgerUnchanged(r)
      /\ AllInState(a, "Inventory") => r.err # "AssetsNotInInventory"

\* a paydown id is free, one asset is in the inventory and another is reserved by a paydown:
\* proposing a paydown over both is rejected, over the first alone it is not
C15_Witness ==
  \E id \in PaydownIds \ DOMAIN paydowns, a, b \in AssetIds :
    /\ AllInState({a}, "Inventory") /\ AllInState({b}, "PaydownProposed")
    /\ propose_paydown(FullGrant, id, {a, b}, 1, ExactFunds(1)).err = "AssetsNotInInventory"
    /\ propose_paydown(FullGrant, id, {a}, 1, ExactFunds(1)).err = "Ok"

\* what a successful proposal leaves behind
ProposedPaydown(r, id, a, n) ==
  /\ r.err = "Ok"
  /\ id \in DOMAIN r.paydowns
  /\ r.paydowns[id].state = "Proposed" /\ r.paydowns[id].parties_accepted = <<>>
  /\ r.paydowns[id].assets = a /\ r.paydowns[id].total_paydown = n
  /\ \A x \in a : r.assets[x] = "PaydownProposed"
  /\ r.messages = << BankSend(EscrowMarker, n, Stablecoin) >>

\* C16: with a free id, assets in the inventory and the escrow grant held, a paydown proposal
\* succeeds if and only if the attached funds are exactly total_paydown of the settlement
\* denom, and then stores a Proposed paydown nobody has accepted, marks the assets
\* PaydownProposed and emits the one send to escrow; with any other funds it fails with
\* MissingPaydownFunds or InsufficientPaydownFunds and changes nothing
C16_ProposalIffExactFunds ==
  \A id \in PaydownIds \ DOMAIN paydowns, a \in AssetLists, n \in Amounts, f \in FundsSet :
    AllInState(a, "Inventory") =>
      \A r \in {propose_paydown(FullGrant, id, a, n, f)}
                 \cup {propose_paydown_and_sell(FullGrant, id, a, n, b, price, f) : b \in Buyers, price \in Amounts} :
        IF f = ExactFunds(n)
        THEN ProposedPaydown(r, id, a, n)
        ELSE r.err \in {"MissingPaydownFunds", "InsufficientPaydownFunds"} /\ LedgerUnchanged(r)

\* C17: AcceptPaydown of a PaydownOnly paydown by anyone but the warehouse, and of a
\* PaydownAndSell paydown by anyone but the warehouse or its recorded buyer, fails with
\* Unauthorized and changes nothing; the entitled callers are not rejected as Unauthorized;
\* no PaydownOnly paydown lists Buyer among its accepted parties
C17_OnlyEntitledAccept ==
  /\ \A m \in EscrowMarkers, id \in DOMAIN paydowns, s \in Senders, f \in FundsSet :
       LET r == accept_paydown(m, id, s, f)
           entitled == IF paydowns[id].kind = "PaydownOnly" THEN {Warehouse}
                       ELSE {Warehouse, paydowns[id].sale_info[1].buyer}
       IN IF s \in entitled THEN r.err # "Unauthorized"
          ELSE r.err = "Unauthorized" /\ LedgerUnchanged(r)
  /\ \A id \in DOMAIN paydowns :
       paydowns[id].kind = "PaydownOnly" => "Buyer" \notin Range(paydowns[id].parties_accepted)

\* a PaydownOnly paydown accepted by the warehouse and a PaydownAndSell paydown accepted by
\* its buyer are stored, and a stranger is turned away from both
C17_Witness ==
  /\ \E id \in DOMAIN paydowns :
       /\ paydowns[id].kind = "PaydownOnly" /\ paydowns[id].parties_accepted = <<"Warehouse">>
       /\ accept_paydown(FullGrant, id, BuyerAddr, ExactFunds(1)).err = "Unauthorized"
  /\ \E id \in DOMAIN paydowns :
       /\ paydowns[id].kind = "PaydownAndSell" /\ "Buyer" \in Range(paydowns[id].parties_accepted)
       /\ accept_paydown(FullGrant, id, Stranger, ExactFunds(1)).err = "Unauthorized"

\* the parties that have to accept a paydown of this kind
RequiredParties(paydown) ==
  IF paydown.kind = "PaydownOnly" THEN {"Warehouse"} ELSE {"Warehouse", "Buyer"}

\* C18: a Proposed paydown lacks the acceptance of a required party, an Accepted or Executed
\* paydown has the acceptance of all of them, and each successful AcceptPaydown leaves the
\* paydown Accepted exactly when it completed the required set, Proposed otherwise
C18_AcceptedIffAllParties ==
  /\ \A id \in DOMAIN paydowns :
       LET accepted == Range(paydowns[id].parties_accepted)
       IN /\ paydowns[id].state = "Proposed" => ~(RequiredParties(paydowns[id]) \subseteq accepted)
          /\ paydowns[id].state \in {"Accepted", "Executed"} => RequiredParties(paydowns[id]) \subseteq accepted
  /\ \A m \in EscrowMarkers, id \in DOMAIN paydowns, s \in Senders, f \in FundsSet :
       LET r == accept_paydown(m, id, s, f)
       IN r.err = "Ok" =>
            r.paydowns[id].state =
              (IF RequiredParties(paydowns[id]) \subseteq Range(r.paydowns[id].parties_accepted)
               THEN "Accepted" ELSE "Proposed")

\* one paydown-and-sell was accepted by the warehouse and then by the buyer and is Accepted,
\* another has the buyer's acceptance alone, is Proposed, and the warehouse's acceptance
\* completes it
C18_Witness ==
  /\ \E id \in WithState(paydowns, {"Accepted"}) : paydowns[id].parties_accepted = <<"Warehouse", "Buyer">>
  /\ \E id \in WithState(paydowns, {"Proposed"}) :
       /\ paydowns[id].parties_accepted = <<"Buyer">>
       /\ accept_paydown(FullGrant, id, Warehouse, <<>>).paydowns[id].state = "Accepted"

\* C19: AcceptPaydown by a sender whose party is already among the accepted parties fails
\* with PaydownPartyAlreadyAccepted and changes nothing, whatever state the paydown is in;
\* no party appears twice among the accepted parties
C19_NoSecondAcceptance ==
  /\ \A m \in EscrowMarkers, id \in DOMAIN paydowns, s \in Senders, f \in FundsSet :
       LET r == accept_paydown(m, id, s, f)
       IN (EntitledAs(paydowns[id], s) # {}
           /\ EntitledAs(paydowns[id], s) \subseteq Range(paydowns[id].parties_accepted)) =>
            r.err = "PaydownPartyAlreadyAccepted" /\ LedgerUnchanged(r) /\ r.messages = <<>>
  /\ \A id \in DOMAIN paydowns :
       Len(paydowns[id].parties_accepted) = Cardinality(Range(paydowns[id].parties_accepted))

\* an Accepted paydown-and-sell and a Proposed one accepted by the warehouse alone: the
\* warehouse's second acceptance is refused on both, the buyer's on the first
C19_Witness ==
  /\ \E id \in WithState(paydowns, {"Accepted"}) :
       /\ paydowns[id].kind = "PaydownAndSell"
       /\ accept_paydown(FullGrant, id, Warehouse, <<>>).err = "PaydownPartyAlreadyAccepted"
       /\ accept_paydown(FullGrant, id, BuyerAddr, ExactFunds(paydowns[id].sale_info[1].price)).err
            = "PaydownPartyAlreadyAccepted"
  /\ \E id \in WithState(paydowns, {"Proposed"}) :
       /\ paydowns[id].parties_accepted = <<"Warehouse">>
       /\ accept_paydown(FullGrant, id, Warehouse, <<>>).err = "PaydownPartyAlreadyAccepted"

\* C20: with the escrow grant held, the buyer's first acceptance of a Proposed paydown-and-sell
\* succeeds if and only if the attached funds are exactly the purchase price in the settlement
\* denom, and then records Buyer and emits the one send of the price to escrow; with any other
\* funds it fails with MissingPurchaseFunds or InsufficientPurchaseFunds and the buyer is not
\* recorded; the warehouse's first acceptance succeeds with any funds and emits nothing
C20_BuyerPaysExactPrice ==
  \A id \in WithState(paydowns, {"Proposed"}), f \in FundsSet :
    /\ (paydowns[id].kind = "PaydownAndSell" /\ "Buyer" \notin Range(paydowns[id].parties_accepted)) =>
         LET r == accept_paydown(FullGrant, id, paydowns[id].sale_info[1].buyer, f)
             price == paydowns[id].sale_info[1].price
         IN IF f = ExactFunds(price)
            THEN /\ r.err = "Ok"
                 /\ "Buyer" \in Range(r.paydowns[id].parties_accepted)
                 /\ r.messages = << BankSend(EscrowMarker, price, Stablecoin) >>
            ELSE /\ r.err \in {"MissingPurchaseFunds", "InsufficientPurchaseFunds"}
                 /\ LedgerUnchanged(r) /\ r.messages = <<>>
    /\ "Warehouse" \notin Range(paydowns[id].parties_accepted) =>
         LET r == accept_paydown(FullGrant, id, Warehouse, f)
         IN r.err = "Ok" /\ r.messages = <<>>

\* the withdrawals from escrow among the instructions, in order
Withdrawals(messages) == SelectSeq(messages, LAMBDA x : x.msg = "withdraw_coins")

\* C21: a successful CancelPaydown leaves the paydown Cancelled and each of its assets recorded
\* as Inventory, and emits the withdrawal of total_paydown from escrow to the originator,
\* followed by the withdrawal of the purchase price from escrow to the buyer if and only if the
\* paydown is a PaydownAndSell that lists Buyer among its accepted parties
C21_CancelPaydownEffects ==
  \A m \in EscrowMarkers, id \in DOMAIN paydowns :
    LET r == cancel_paydown(m, id)
        paydown == paydowns[id]
    IN r.err = "Ok" =>
         /\ r.paydowns[id].state = "Cancelled"
         /\ \A a \in paydown.assets : a \in DOMAIN r.assets /\ r.assets[a] = "Inventory"
         /\ r.messages =
              << withdraw_coins(EscrowMarker, paydown.total_paydown, Stablecoin, Originator) >>
                \o (IF paydown.kind = "PaydownAndSell" /\ "Buyer" \in Range(paydown.parties_accepted)
                    THEN << withdraw_coins(EscrowMarker, paydown.sale_info[1].price, Stablecoin,
                                           paydown.sale_info[1].buyer) >>
                    ELSE <<>>)

\* a paydown-and-sell the buyer has paid for and one only the warehouse has accepted can both
\* be cancelled, the first with two withdrawals and the second with one
C21_Witness ==
  /\ \E id \in WithState(paydowns, {"Proposed"}) :
       /\ paydowns[id].parties_accepted = <<"Buyer">>
       /\ Len(cancel_paydown(FullGrant, id).messages) = 2
  /\ \E id \in WithState(paydowns, {"Proposed"}) :
       /\ paydowns[id].kind = "PaydownAndSell" /\ paydowns[id].parties_accepted = <<"Warehouse">>
       /\ Len(cancel_paydown(FullGrant, id).messages) = 1

\* C22: CancelPledge on a pledge that is Executed, Closed or Cancelled and CancelPaydown on a
\* paydown that is Executed or Cancelled fail with StateError, change nothing and emit nothing,
\* whatever the escrow grants are
C22_NoCancelAfterFinal ==
  \A m \in EscrowMarkers :
    /\ \A id \in WithState(pledges, {"Executed", "Closed", "Cancelled"}) :
         LET r == cancel_pledge(m, id)
         IN r.err = "StateError" /\ LedgerUnchanged(r) /\ r.messages = <<>>
    /\ \A id \in WithState(paydowns, {"Executed", "Cancelled"}) :
         LET r == cancel_paydown(m, id)
         IN r.err = "StateError" /\ LedgerUnchanged(r) /\ r.messages = <<>>

\* a Closed and a Cancelled pledge and an Executed and a Cancelled paydown are stored
C22_Witness ==
  /\ WithState(pledges, {"Closed"}) # {} /\ WithState(pledges, {"Cancelled"}) # {}
  /\ WithState(paydowns, {"Executed"}) # {} /\ WithState(paydowns, {"Cancelled"}) # {}

\* C23: ExecutePaydown succeeds only on an Accepted paydown (and does so when the grant is
\* held); on success the paydown is Executed, none of its assets has a record or is listed by
\* list_inventory, and the withdrawals from escrow are total_paydown to the warehouse followed,
\* if and only if the kind is PaydownAndSell, by the purchase price to the originator
C23_ExecutePaydownEffects ==
  \A m \in EscrowMarkers, id \in DOMAIN paydowns :
    LET r == execute_paydown(m, id)
        paydown == paydowns[id]
    IN /\ paydown.state # "Accepted" => r.err = "StateError" /\ LedgerUnchanged(r)
       /\ (paydown.state = "Accepted" /\ m \notin NoGrantMarkers) => r.err = "Ok"
       /\ r.err = "Ok" =>
            /\ paydown.state = "Accepted"
            /\ r.paydowns[id].state = "Executed"
            /\ paydown.assets \cap DOMAIN r.assets = {}
            /\ paydown.assets \cap list_inventory(r.assets) = {}
            /\ Withdrawals(r.messages) =
                 << withdraw_coins(EscrowMarker, paydown.total_paydown, Stablecoin, Warehouse) >>
                   \o (IF paydown.kind = "PaydownAndSell"
                       THEN << withdraw_coins(EscrowMarker, paydown.sale_info[1].price, Stablecoin, Originator) >>
                       ELSE <<>>)

\* a plain paydown and a paydown-and-sell have both been executed and their assets are gone
C23_Witness ==
  /\ \E id \in WithState(paydowns, {"Executed"}) :
       paydowns[id].kind = "PaydownOnly" /\ paydowns[id].assets \cap DOMAIN assets = {}
  /\ \E id \in WithState(paydowns, {"Executed"}) :
       paydowns[id].kind = "PaydownAndSell" /\ paydowns[id].assets \cap DOMAIN assets = {}

\* C24: a successful ExecutePaydown moves a pledge to Closed if and only if the pledge is
\* Executed, lists an asset of the paydown and, with the paydown's assets removed, has no asset
\* recorded as Inventory or PaydownProposed; every other pledge is left as it was
C24_ClosedIffNothingLeft ==
  \A m \in EscrowMarkers, id \in DOMAIN paydowns :
    LET r == execute_paydown(m, id)
    IN r.err = "Ok" =>
         \A p \in DOMAIN pledges :
           LET left == {a \in pledges[p].assets :
                          a \in DOMAIN r.assets /\ r.assets[a] \in {"Inventory", "PaydownProposed"}}
               closes == /\ pledges[p].state = "Executed"
                         /\ pledges[p].assets \cap paydowns[id].assets # {}
                         /\ left = {}
           IN r.pledges[p] = IF closes THEN [pledges[p] EXCEPT !.state = "Closed"] ELSE pledges[p]

\* a pledge over two assets stayed Executed when a paydown over one of them was executed,
\* and the execution of an Accepted paydown now closes it
C24_Witness ==
  \E p \in WithState(pledges, {"Executed"}), id \in WithState(paydowns, {"Accepted"}) :
    /\ Cardinality(pledges[p].assets) = 2
    /\ \E d \in WithState(paydowns, {"Executed"}) :
         paydowns[d].assets \subseteq pledges[p].assets /\ Cardinality(paydowns[d].assets) = 1
    /\ execute_paydown(FullGrant, id).pledges[p].state = "Closed"

\* C25: no operation other than ExecutePaydown leaves a pledge Closed that was not Closed
\* before, and in every successful ExecutePaydown the affected pledges are exactly the Executed
\* pledges that list an asset of the paydown, the closed pledges are among them, and the
\* pledges that become Closed are exactly the closed pledges
C25_ClosedOnlyByExecutePaydown ==
  /\ \A op \in Operations \ {"ExecutePaydown"} : \A r \in Responses(op) :
       \A p \in WithState(r.pledges, {"Closed"}) : p \in WithState(pledges, {"Closed"})
  /\ \A m \in EscrowMarkers, id \in DOMAIN paydowns :
       LET r == execute_paydown(m, id)
       IN r.err = "Ok" =>
            /\ Range(r.affected_pledges) =
                 {p \in WithState(pledges, {"Executed"}) : pledges[p].assets \cap paydowns[id].assets # {}}
            /\ Range(r.closed_pledges) \subseteq Range(r.affected_pledges)
            /\ WithState(r.pledges, {"Closed"}) \ WithState(pledges, {"Closed"}) = Range(r.closed_pledges)

\* an Accepted paydown over two assets touches two Executed pledges and closes one of them:
\* the affected pledges are both, the closed pledges are a proper part
C25_Witness ==
  \E id \in WithState(paydowns, {"Accepted"}) :
    LET r == execute_paydown(FullGrant, id)
    IN Len(r.affected_pledges) = 2 /\ Len(r.closed_pledges) = 1

\* C26: no step removes a pledge or a paydown record: every id stored before a step is stored
\* after it, whatever the operation and its outcome
C26_RecordsNeverDeleted ==
  [][DOMAIN pledges \subseteq DOMAIN pledges' /\ DOMAIN paydowns \subseteq DOMAIN paydowns']_vars

\* every pledge id and every paydown id is taken, by records that were cancelled, executed
\* or closed
C26_Witness ==
  /\ DOMAIN pledges = PledgeIds /\ DOMAIN paydowns = PaydownIds
  /\ WithState(pledges, {"Proposed", "Accepted"}) = {}
  /\ WithState(paydowns, {"Proposed", "Accepted"}) = {}
  /\ WithState(pledges, {"Cancelled"}) # {} /\ WithState(paydowns, {"Cancelled"}) # {}

\* C27: a stored paydown has sale_info if and only if its kind is PaydownAndSell; a paydown
\* stored by ProposePaydown is a PaydownOnly without sale_info, one stored by
\* ProposePaydownAndSell is a PaydownAndSell with the buyer and price of the request
C27_SaleInfoIffSell ==
  /\ \A id \in DOMAIN paydowns : Len(paydowns[id].sale_info) = 1 <=> paydowns[id].kind = "PaydownAndSell"
  /\ \A m \in EscrowMarkers, id \in PaydownIds, a \in AssetLists, n \in Amounts, f \in FundsSet :
       /\ LET r == propose_paydown(m, id, a, n, f)
          IN r.err = "Ok" => r.paydowns[id].kind = "PaydownOnly" /\ r.paydowns[id].sale_info = <<>>
       /\ \A b \in Buyers, price \in Amounts :
            LET r == propose_paydown_and_sell(m, id, a, n, b, price, f)
            IN r.err = "Ok" =>
                 /\ r.paydowns[id].kind = "PaydownAndSell"
                 /\ r.paydowns[id].sale_info = << [buyer |-> b, price |-> price] >>

\* a plain paydown and a paydown-and-sell are stored side by side
C27_Witness ==
  /\ \E id \in DOMAIN paydowns : paydowns[id].kind = "PaydownOnly" /\ paydowns[id].sale_info = <<>>
  /\ \E id \in DOMAIN paydowns : paydowns[id].kind = "PaydownAndSell" /\ Len(paydowns[id].sale_info) = 1

\* C28: the outcome of a money-moving operation follows the escrow access list of that very
\* call: on a record that earlier calls brought to Accepted (pledge) or Proposed (paydown)
\* while the grant was held, the next operation fails with MissingEscrowMarkerGrant, changing
\* nothing, when the list no longer gives Transfer and Withdraw, and the same operation on the
\* unchanged record succeeds when the list gives them again
C28_GrantCheckedEachCall ==
  /\ \A id \in WithState(pledges, {"Accepted"}) :
       /\ \A m \in NoGrantMarkers : RejectedForGrant(execute_pledge(m, id))
       /\ \A m \in EscrowMarkers \ NoGrantMarkers : execute_pledge(m, id).err = "Ok"
  /\ \A id \in WithState(paydowns, {"Proposed"}) :
       "Warehouse" \notin Range(paydowns[id].parties_accepted) =>
         /\ \A m \in NoGrantMarkers : RejectedForGrant(accept_paydown(m, id, Warehouse, <<>>))
         /\ \A m \in EscrowMarkers \ NoGrantMarkers : accept_paydown(m, id, Warehouse, <<>>).err = "Ok"

\* a pledge has been proposed and accepted and a paydown proposed, each with the grant held:
\* executing the one and accepting the other now fail without the grant and succeed with it
C28_Witness ==
  /\ \E id \in WithState(pledges, {"Accepted"}) :
       /\ execute_pledge(PartialGrant, id).err = "MissingEscrowMarkerGrant"
       /\ execute_pledge(FullGrant, id).err = "Ok"
  /\ \E id \in WithState(paydowns, {"Proposed"}) :
       /\ accept_paydown(PartialGrant, id, Warehouse, <<>>).err = "MissingEscrowMarkerGrant"
       /\ accept_paydown(FullGrant, id, Warehouse, <<>>).err = "Ok"

\* ------------------------------------------------- capital-call contract
MaxCapital == 2

MaxCapitalSends == 2

CapitalAmounts == 1..MaxCapital

\* addresses: the accounts that can be the instantiating general partner, the investor and
\* the administrator (one account may hold several of the roles), and an outsider
Creator == "creator"

LpSource == "lp_capital_source"

Admin == "admin"

Parties == {Creator, LpSource, Admin}

CallSenders == Parties \cup {Stranger}

CapitalDenom == "cfigure"

SharesDenom == "fund-coin"

SharesAmount == 10

SharesMarkerAddress == "shares_marker"

\* what the marker module answers to get_marker_by_denom(shares.denom): no marker, or the marker
SharesMarkers == {<<>>, << [address |-> SharesMarkerAddress, denom |-> SharesDenom] >>}

\* info.funds of a call: nothing, the capital itself, the capital followed by a second coin,
\* another amount of its denom, or a coin of another denom
CapitalFunds(capital) ==
  {<<>>, <<capital>>, <<capital, Coin(OtherDenom, 1)>>,
   <<Coin(capital.denom, capital.amount + 1)>>, <<Coin(OtherDenom, capital.amount)>>}

mint_marker_supply(amount, denom) == Msg("mint_marker_supply", denom, denom, amount, "-", "-")

\* BankMsg::Send { to_address, amount: vec![coin] }
BankSendCoin(to, coin) == BankSend(to, coin.amount, coin.denom)

\* the State that instantiate saves
instantiate(sender, lp_capital_source, admin, capital, shares) ==
  [status |-> "PendingCapital", gp |-> sender, lp_capital_source |-> lp_capital_source,
   admin |-> admin, capital |-> capital, shares |-> shares]

\* a handler's result: the outcome, the State it has saved by then, its messages
CallResp(err, state, messages) == [err |-> err, state |-> state, messages |-> messages]

contract_error(err) == CallResp(err, config, <<>>)

try_commit_capital(sender, funds) ==
  LET state == config IN
  IF state.status # "PendingCapital" THEN contract_error("contract no longer pending capital")
  ELSE IF sender # state.lp_capital_source THEN contract_error("wrong investor committing capital")
  ELSE IF funds = <<>> THEN contract_error("no capital was committed")
  ELSE IF funds[1] # state.capital THEN contract_error("capital does not match required")
  ELSE CallResp("Ok", [state EXCEPT !.status = "CapitalCommitted"], <<>>)

\* mutant: cancels whatever the status is
try_cancel_any_status(sender) ==
  LET state == config IN
  IF sender # state.gp /\ sender # state.admin THEN contract_error("wrong gp cancelling capital call")
  ELSE CallResp("Ok", [state EXCEPT !.status = "Cancelled"],
                IF state.status = "CapitalCommitted"
                THEN << BankSendCoin(state.lp_capital_source, state.capital) >>
                ELSE <<>>)

\* mutant: sends the capital back whether or not it was committed
try_cancel_always_refund(sender) ==
  LET state == config IN
  IF state.status = "CapitalCalled" THEN contract_error("capital already called")
  ELSE IF state.status = "Cancelled" THEN contract_error("already cancelled")
  ELSE IF sender # state.gp /\ sender # state.admin THEN contract_error("wrong gp cancelling capital call")
  ELSE CallResp("Ok", [state EXCEPT !.status = "Cancelled"],
                << BankSendCoin(state.lp_capital_source, state.capital) >>)

try_cancel(sender) ==
  LET state == config IN
  IF state.status = "CapitalCalled" THEN contract_error("capital already called")
  ELSE IF state.status = "Cancelled" THEN contract_error("already cancelled")
  ELSE IF sender # state.gp /\ sender # state.admin THEN contract_error("wrong gp cancelling capital call")
  ELSE CallResp("Ok", [state EXCEPT !.status = "Cancelled"],
                IF state.status = "CapitalCommitted"
                THEN << BankSendCoin(state.lp_capital_source, state.capital) >>
                ELSE <<>>)

\* the status is saved before the marker is looked up: when the lookup fails the handler
\* returns the error with the new status already written
try_call_capital(sender, marker) ==
  LET state == config IN
  IF state.status # "CapitalCommitted" THEN contract_error("capital not committed")
  ELSE IF sender # state.gp /\ sender # state.admin THEN contract_error("wrong gp calling capital")
  ELSE LET saved == [state EXCEPT !.status = "CapitalCalled"]
           mint == mint_marker_supply(state.shares.amount, state.shares.denom)
           withdraw == withdraw_coins(state.shares.denom, state.shares.amount, state.shares.denom,
                                      state.lp_capital_source)
       IN IF marker = <<>> THEN CallResp("marker not found", saved, <<>>)
          ELSE CallResp("Ok", saved, << mint, withdraw, BankSendCoin(marker[1].address, state.capital) >>)

\* the sends of the capital among a response's messages
CapitalSends(r) == Len(SelectSeq(r.messages, LAMBDA x : x.msg = "send"))

\* the execute entry point: the writes and messages of a handler that returns an error are
\* discarded with the failed transaction
Persist(r) ==
  /\ config' = IF r.err = "Ok" THEN r.state ELSE config
  /\ capital_sent' = IF r.err = "Ok" /\ capital_sent + CapitalSends(r) <= MaxCapitalSends
                     THEN capital_sent + CapitalSends(r)
                     ELSE capital_sent
  /\ UNCHANGED <<pledges, paydowns, assets, removed_by_paydown, escrow_net, schedule, transfers, requested, released>>

CapitalInit ==
  /\ pledges = Empty
  /\ paydowns = Empty
  /\ assets = Empty
  /\ removed_by_paydown = {}
  /\ escrow_net = 0
  /\ schedule = "any"
  /\ \E gp \in Parties, lp \in Parties, admin \in Parties, n \in CapitalAmounts :
       config = instantiate(gp, lp, admin, Coin(CapitalDenom, n), Coin(SharesDenom, SharesAmount))
  /\ capital_sent = 0
  /\ transfers = Empty
  /\ requested = NoneCounted
  /\ released = NoneCounted

CommitCapital ==
  \E sender \in CallSenders, funds \in CapitalFunds(config.capital) :
    Persist(try_commit_capital(sender, funds))

Cancel ==
  \E sender \in CallSenders : Persist(try_cancel(sender))

CallCapital ==
  \E sender \in CallSenders, marker \in SharesMarkers : Persist(try_call_capital(sender, marker))

CapitalNext ==
  \/ CommitCapital
  \/ Cancel
  \/ CallCapital

CapitalSpec == CapitalInit /\ [][CapitalNext]_vars

StatusEdges == { <<"PendingCapital", "CapitalCommitted">>, <<"CapitalCommitted", "CapitalCalled">>,
                 <<"PendingCapital", "Cancelled">>, <<"CapitalCommitted", "Cancelled">> }

\* the State in storage once the call that answered r is over
Stored(r) == IF r.err = "Ok" THEN r.state ELSE config

\* what each call leaves in storage
CapitalCallOutcomes ==
  /\ \A sender \in CallSenders, funds \in CapitalFunds(config.capital) :
       LET r == try_commit_capital(sender, funds)
       IN IF r.err = "Ok"
          THEN config.status = "PendingCapital"
               /\ Stored(r) = [config EXCEPT !.status = "CapitalCommitted"]
          ELSE Stored(r) = config
  /\ \A sender \in CallSenders :
       LET r == try_cancel(sender)
       IN IF r.err = "Ok"
          THEN config.status \in {"PendingCapital", "CapitalCommitted"}
               /\ Stored(r) = [config EXCEPT !.status = "Cancelled"]
          ELSE Stored(r) = config
  /\ \A sender \in CallSenders, marker \in SharesMarkers :
       LET r == try_call_capital(sender, marker)
       IN IF r.err = "Ok"
          THEN config.status = "CapitalCommitted"
               /\ Stored(r) = [config EXCEPT !.status = "CapitalCalled"]
          ELSE Stored(r) = config

C30_CapitalPaidOnce ==
  /\ capital_sent <= 1
  /\ \A sender \in CallSenders, funds \in CapitalFunds(config.capital) :
       try_commit_capital(sender, funds).messages = <<>>
  /\ \A sender \in CallSenders :
       LET r == try_cancel(sender)
       IN /\ r.err = "Ok" =>
               r.messages = IF config.status = "CapitalCommitted"
                            THEN << BankSend(config.lp_capital_source, config.capital.amount, config.capital.denom) >>
                            ELSE <<>>
          /\ r.err # "Ok" => r.messages = <<>>
          /\ capital_sent = 1 => r.messages = <<>>
  /\ \A sender \in CallSenders, marker \in SharesMarkers :
       LET r == try_call_capital(sender, marker)
       IN /\ r.err = "Ok" =>
               r.messages = << mint_marker_supply(config.shares.amount, config.shares.denom),
                               withdraw_coins(config.shares.denom, config.shares.amount,
                                              config.shares.denom, config.lp_capital_source),
                               BankSend(marker[1].address, config.capital.amount, config.capital.denom) >>
          /\ r.err # "Ok" => r.messages = <<>>
          /\ capital_sent = 1 => r.messages = <<>>

\* the committed capital has gone back to the investor with a cancel
C30_Witness ==
  /\ config.status = "Cancelled"
  /\ capital_sent = 1

\* ---------------------------------------- restricted-marker-transfer contract
MaxTransferAmount == 2

TransferAmounts == 1..MaxTransferAmount

SenderAddress == "sender_address"

RecipientAddress == "transfer_to"

TransferAddress == "transfer_address"

ApproverAddress == "approver_address"

\* info.sender of a call
TransferCallers == {SenderAddress, RecipientAddress, TransferAddress, ApproverAddress}

Recipients == {RecipientAddress, TransferAddress}

RestrictedDenom == "restricted_1"

\* info.funds of a call: nothing or a coin
SentFunds == {<<>>, << Coin(RestrictedDenom, 1) >>}

\* MarkerAccount: marker_type 2 is MarkerType::Restricted
MarkerAccount(marker_type, access_control) == [marker_type |-> marker_type, access_control |-> access_control]

\* what the marker module answers to the query for the denom: no marker, an unrestricted
\* marker, or a restricted marker with one of three access lists
MarkerAnswers ==
  {<<>>,
   << MarkerAccount(1, << AccessGrant(TransferAddress, {"Transfer"}) >>) >>,
   << MarkerAccount(2, << AccessGrant(TransferAddress, {"Transfer"}) >>) >>,
   << MarkerAccount(2, << AccessGrant(TransferAddress, {"Admin"}) >>) >>,
   << MarkerAccount(2, << AccessGrant(SenderAddress, {"Withdraw"}),
                          AccessGrant(TransferAddress, {"Admin", "Transfer"}) >>) >>}

\* the sender's balance of the denom, as query_balance answers
Balances == 0..MaxTransferAmount

MsgTransferRequest(amount, to_address, from_address, administrator) ==
  [msg |-> "MsgTransferRequest", amount |-> amount, to_address |-> to_address,
   from_address |-> from_address, administrator |-> administrator]

TransferResp(err, stored, messages) == [err |-> err, transfers |-> stored, messages |-> messages]

TransferErr(e) == TransferResp(e, transfers, <<>>)

has_marker_access_transfer(sender, marker) ==
  \E i \in DOMAIN marker.access_control :
    /\ marker.access_control[i].address = sender
    /\ "Transfer" \in marker.access_control[i].permissions

create_transfer(sender, funds, marker, balance, id, denom, amount, recipient) ==
  LET transfer == [id |-> id, sender |-> sender, denom |-> denom, amount |-> amount, recipient |-> recipient]
      is_restricted_marker == marker # <<>> /\ marker[1].marker_type = 2
  IN IF ~is_restricted_marker THEN TransferErr("UnsupportedMarkerType")
     ELSE IF funds # <<>> THEN TransferErr("SentFundsUnsupported")
     ELSE IF balance < transfer.amount THEN TransferErr("InsufficientFunds")
     ELSE IF id \in DOMAIN transfers THEN TransferErr("InvalidFields")
     ELSE TransferResp("Ok",
                       [i \in (DOMAIN transfers) \cup {id} |-> IF i = id THEN transfer ELSE transfers[i]],
                       << MsgTransferRequest(Coin(transfer.denom, transfer.amount), Contract,
                                             transfer.sender, Contract) >>)

\* mutant: lets anyone cancel
cancel_transfer_anyone(sender, funds, transfer_id) ==
  IF transfer_id \notin DOMAIN transfers THEN TransferErr("LoadTransferFailed")
  ELSE LET transfer == transfers[transfer_id] IN
  IF funds # <<>> THEN TransferErr("SentFundsUnsupported")
  ELSE TransferResp("Ok",
                    [i \in (DOMAIN transfers) \ {transfer_id} |-> transfers[i]],
                    << MsgTransferRequest(Coin(transfer.denom, transfer.amount), transfer.sender,
                                          Contract, Contract) >>)

cancel_transfer(sender, funds, transfer_id) ==
  IF transfer_id \notin DOMAIN transfers THEN TransferErr("LoadTransferFailed")
  ELSE LET transfer == transfers[transfer_id] IN
  IF funds # <<>> THEN TransferErr("SentFundsUnsupported")
  ELSE IF sender # transfer.sender THEN TransferErr("Unauthorized")
  ELSE TransferResp("Ok",
                    [i \in (DOMAIN transfers) \ {transfer_id} |-> transfers[i]],
                    << MsgTransferRequest(Coin(transfer.denom, transfer.amount), transfer.sender,
                                          Contract, Contract) >>)

reject_transfer(sender, funds, marker, transfer_id) ==
  IF transfer_id \notin DOMAIN transfers THEN TransferErr("LoadTransferFailed")
  ELSE LET transfer == transfers[transfer_id] IN
  IF funds # <<>> THEN TransferErr("SentFundsUnsupported")
  ELSE IF marker = <<>> THEN TransferErr("no marker found for denom")
  ELSE IF ~has_marker_access_transfer(sender, marker[1]) THEN TransferErr("Unauthorized")
  ELSE TransferResp("Ok",
                    [i \in (DOMAIN transfers) \ {transfer_id} |-> transfers[i]],
                    << MsgTransferRequest(Coin(transfer.denom, transfer.amount), transfer.sender,
                                          Contract, Contract) >>)

\* mutant: answers the approval and leaves the transfer in storage
approve_transfer_keep(sender, funds, marker, transfer_id) ==
  IF transfer_id \notin DOMAIN transfers THEN TransferErr("LoadTransferFailed")
  ELSE LET transfer == transfers[transfer_id] IN
  IF funds # <<>> THEN TransferErr("SentFundsUnsupported")
  ELSE IF marker = <<>> THEN TransferErr("no marker found for denom")
  ELSE IF ~has_marker_access_transfer(sender, marker[1]) THEN TransferErr("Unauthorized")
  ELSE TransferResp("Ok",
                    transfers,
                    << MsgTransferRequest(Coin(transfer.denom, transfer.amount), transfer.recipient,
                                          Contract, Contract) >>)

approve_transfer(sender, funds, marker, transfer_id) ==
  IF transfer_id \notin DOMAIN transfers THEN TransferErr("LoadTransferFailed")
  ELSE LET transfer == transfers[transfer_id] IN
  IF funds # <<>> THEN TransferErr("SentFundsUnsupported")
  ELSE IF marker = <<>> THEN TransferErr("no marker found for denom")
  ELSE IF ~has_marker_access_transfer(sender, marker[1]) THEN TransferErr("Unauthorized")
  ELSE TransferResp("Ok",
                    [i \in (DOMAIN transfers) \ {transfer_id} |-> transfers[i]],
                    << MsgTransferRequest(Coin(transfer.denom, transfer.amount), transfer.recipient,
                                          Contract, Contract) >>)

\* the execute entry point keeps the storage the handler leaves; the history counts the
\* successful calls on the id
Requested(r, id) ==
  /\ transfers' = r.transfers
  /\ requested' = IF r.err = "Ok" THEN [requested EXCEPT ![id] = @ + 1] ELSE requested
  /\ UNCHANGED released
  /\ UNCHANGED <<pledges, paydowns, assets, removed_by_paydown, escrow_net, schedule, config, capital_sent>>

Released(r, id) ==
  /\ transfers' = r.transfers
  /\ released' = IF r.err = "Ok" /\ released[id] <= MaxTransfersPerId
                 THEN [released EXCEPT ![id] = @ + 1] ELSE released
  /\ UNCHANGED requested
  /\ UNCHANGED <<pledges, paydowns, assets, removed_by_paydown, escrow_net, schedule, config, capital_sent>>

TransferInit ==
  /\ pledges = Empty
  /\ paydowns = Empty
  /\ assets = Empty
  /\ removed_by_paydown = {}
  /\ escrow_net = 0
  /\ schedule = "any"
  /\ config = NotInstantiated
  /\ capital_sent = 0
  /\ transfers = Empty
  /\ requested = NoneCounted
  /\ released = NoneCounted

CreateTransfer ==
  \E sender \in TransferCallers, funds \in SentFunds, marker \in MarkerAnswers, balance \in Balances,
     id \in TransferIds, amount \in TransferAmounts, recipient \in Recipients :
    /\ requested[id] < MaxTransfersPerId
    /\ Requested(create_transfer(sender, funds, marker, balance, id, RestrictedDenom, amount, recipient), id)

CancelTransfer ==
  \E sender \in TransferCallers, funds \in SentFunds, id \in TransferIds :
    Released(cancel_transfer(sender, funds, id), id)

RejectTransfer ==
  \E sender \in TransferCallers, funds \in SentFunds, marker \in MarkerAnswers, id \in TransferIds :
    Released(reject_transfer(sender, funds, marker, id), id)

ApproveTransfer ==
  \E sender \in TransferCallers, funds \in SentFunds, marker \in MarkerAnswers, id \in TransferIds :
    Released(approve_transfer(sender, funds, marker, id), id)

TransferNext ==
  \/ CreateTransfer
  \/ CancelTransfer
  \/ RejectTransfer
  \/ ApproveTransfer

TransferSpec == TransferInit /\ [][TransferNext]_vars

\* the responses of the three resolving calls to one id, each with the address the escrowed
\* amount has to go to
Resolutions(id) ==
  {<<cancel_transfer(sender, funds, id), "sender">> : sender \in TransferCallers, funds \in SentFunds}
    \cup {<<reject_transfer(sender, funds, marker, id), "sender">> :
            sender \in TransferCallers, funds \in SentFunds, marker \in MarkerAnswers}
    \cup {<<approve_transfer(sender, funds, marker, id), "recipient">> :
            sender \in TransferCallers, funds \in SentFunds, marker \in MarkerAnswers}

\* a successful resolution removes the transfer, keeps the others and emits the one transfer
\* of the escrowed amount out of the contract
ResolvesOnce(id) ==
  \A x \in Resolutions(id) :
    LET r == x[1] IN
    r.err = "Ok" =>
      /\ id \in DOMAIN transfers
      /\ DOMAIN r.transfers = DOMAIN transfers \ {id}
      /\ \A i \in DOMAIN r.transfers : r.transfers[i] = transfers[i]
      /\ r.messages =
           << MsgTransferRequest(Coin(transfers[id].denom, transfers[id].amount),
                                 IF x[2] = "recipient" THEN transfers[id].recipient ELSE transfers[id].sender,
                                 Contract, Contract) >>

\* C31 as stated: a successful approve, cancel or reject removes the transfer and emits the
\* one transfer out of the contract, and once an id has been resolved every later approve,
\* cancel or reject of that id fails with LoadTransferFailed
C31_ResolvedIdNeverResolvedAgain ==
  \A id \in TransferIds :
    /\ ResolvesOnce(id)
    /\ released[id] > 0 => \A x \in Resolutions(id) : x[1].err = "LoadTransferFailed"

\* C31 amended: a successful approve, cancel or reject removes the transfer and emits the one
\* transfer out of the contract; while no transfer is stored under an id every approve,
\* cancel or reject of it fails with LoadTransferFailed; so the resolutions of an id never
\* outnumber the transfers created under it: they are one fewer while one is stored and as
\* many otherwise
C31_EachTransferResolvedOnce ==
  \A id \in TransferIds :
    /\ ResolvesOnce(id)
    /\ id \notin DOMAIN transfers =>
         \A x \in Resolutions(id) : x[1].err = "LoadTransferFailed" /\ x[1].transfers = transfers
    /\ requested[id] - released[id] = IF id \in DOMAIN transfers THEN 1 ELSE 0

\* one id was resolved and is free, the other was resolved and is stored again
C31_Witness ==
  \E id, other \in TransferIds :
    /\ released[id] = 1 /\ id \notin DOMAIN transfers
    /\ released[other] = 1 /\ other \in DOMAIN transfers
    /\ approve_transfer(TransferAddress, <<>>,
                        << MarkerAccount(2, << AccessGrant(TransferAddress, {"Transfer"}) >>) >>, other).err = "Ok"

\* the sender is not given Transfer by the marker's access list
WithoutTransferAccess(sender, marker) ==
  \A i \in DOMAIN marker[1].access_control :
    marker[1].access_control[i].address = sender => "Transfer" \notin marker[1].access_control[i].permissions

Refused(r) == r.err # "Ok" /\ r.transfers = transfers /\ r.messages = <<>>

\* C32: for a stored transfer, approve and reject by a sender without Transfer access on the
\* marker, cancel by anyone but the transfer's sender, each of the three with funds attached,
\* and a Transfer request under the stored id all fail, and the storage is as before
C32_RefusedLeavesTransfer ==
  \A id \in DOMAIN transfers :
    /\ \A sender \in TransferCallers, funds \in SentFunds, marker \in MarkerAnswers \ {<<>>} :
         WithoutTransferAccess(sender, marker) =>
           /\ Refused(approve_transfer(sender, funds, marker, id))
           /\ Refused(reject_transfer(sender, funds, marker, id))
    /\ \A sender \in TransferCallers \ {transfers[id].sender}, funds \in SentFunds :
         Refused(cancel_transfer(sender, funds, id))
    /\ \A sender \in TransferCallers, funds \in SentFunds \ {<<>>}, marker \in MarkerAnswers :
         /\ Refused(approve_transfer(sender, funds, marker, id))
         /\ Refused(reject_transfer(sender, funds, marker, id))
         /\ Refused(cancel_transfer(sender, funds, id))
    /\ \A sender \in TransferCallers, funds \in SentFunds, marker \in MarkerAnswers, balance \in Balances,
          amount \in TransferAmounts, recipient \in Recipients :
         Refused(create_transfer(sender, funds, marker, balance, id, RestrictedDenom, amount, recipient))

\* a transfer is stored: its approval by an address without access, its cancellation by the
\* recipient and a second Transfer under its id are refused, its cancellation by its sender is not
C32_Witness ==
  \E id \in DOMAIN transfers :
    LET marker == << MarkerAccount(2, << AccessGrant(TransferAddress, {"Transfer"}) >>) >>
    IN /\ approve_transfer(ApproverAddress, <<>>, marker, id).err = "Unauthorized"
       /\ transfers[id].sender # RecipientAddress
       /\ cancel_transfer(RecipientAddress, <<>>, id).err = "Unauthorized"
       /\ create_transfer(transfers[id].sender, <<>>, marker, MaxTransferAmount, id, RestrictedDenom,
                          1, RecipientAddress).err = "InvalidFields"
       /\ cancel_transfer(transfers[id].sender, <<>>, id).err = "Ok"

\* the Executed pledges that share an asset with the paydown and have nothing listed by
\* list_inventory in the asset records left by the call
ClosingPledges(r, id) ==
  {p \in WithState(pledges, {"Executed"}) :
     /\ pledges[p].assets \cap paydowns[id].assets # {}
     /\ pledges[p].assets \cap list_inventory(r.assets) = {}}

\* what a response emits after its withdrawals from escrow
AfterWithdrawals(messages) == SubSeq(messages, Len(Withdrawals(messages)) + 1, Len(messages))

\* rest is made of one triple per pledge of closing and nothing else: a transfer of the pledge's
\* marker unit to the address to(p), cancel_marker and destroy_marker, in that order
RetiresEach(rest, closing, to(_)) ==
  /\ Len(rest) = 3 * Cardinality(closing)
  /\ \A i \in 1..Len(rest) : rest[i].msg # "withdraw_coins"
  /\ \A p \in closing :
       \E k \in 0..(Cardinality(closing) - 1) :
         LET denom == pledges[p].asset_marker_denom
         IN /\ rest[3 * k + 1].msg = "transfer_marker_coins"
            /\ rest[3 * k + 1].denom = denom /\ rest[3 * k + 1].amount = 1
            /\ rest[3 * k + 1].to = to(p)
            /\ rest[3 * k + 2] = cancel_marker(denom)
            /\ rest[3 * k + 3] = destroy_marker(denom)

ToOriginator(p) == Originator

ToMarker(p) == pledges[p].asset_marker_denom

\* C33 as stated: a successful ExecutePaydown closes every Executed pledge sharing an asset
\* with it that has no asset left in inventory, and after the withdrawals emits for each of
\* them the transfer of its marker unit to the originator, cancel_marker and destroy_marker
C33_ClosedMarkerToOriginator ==
  \A m \in EscrowMarkers, id \in DOMAIN paydowns :
    LET r == execute_paydown(m, id)
    IN r.err = "Ok" =>
         /\ \A p \in ClosingPledges(r, id) : r.pledges[p].state = "Closed"
         /\ RetiresEach(AfterWithdrawals(r.messages), ClosingPledges(r, id), ToOriginator)

\* C33 amended: a successful ExecutePaydown closes every Executed pledge sharing an asset
\* with it that has no asset left in inventory, and after the withdrawals emits for each of
\* them the transfer of its marker unit from the originator to the marker's own address,
\* cancel_marker and destroy_marker, in that order
C33_ClosesEveryEmptiedPledge ==
  \A m \in EscrowMarkers, id \in DOMAIN paydowns :
    LET r == execute_paydown(m, id)
        rest == AfterWithdrawals(r.messages)
    IN r.err = "Ok" =>
         /\ \A p \in ClosingPledges(r, id) : r.pledges[p].state = "Closed"
         /\ RetiresEach(rest, ClosingPledges(r, id), ToMarker)
         /\ \A i \in 1..Len(rest) : rest[i].msg = "transfer_marker_coins" => rest[i].from = Originator
         /\ r.messages = Withdrawals(r.messages) \o rest

\* an Accepted paydown over the assets of two Executed pledges closes both in one call
C33_Witness ==
  \E id \in WithState(paydowns, {"Accepted"}) :
    LET r == execute_paydown(FullGrant, id)
    IN /\ Cardinality(ClosingPledges(r, id)) = 2
       /\ Len(AfterWithdrawals(r.messages)) = 6

\* how many instructions of one kind a response emits for one marker denom
Count(messages, x) ==
  Cardinality({i \in DOMAIN messages : messages[i].msg = x.msg /\ messages[i] = x})

OpenStates == {"Proposed", "Accepted", "Executed"}

RECURSIVE Sum(_, _)
Sum(f, ids) ==
  IF ids = {} THEN 0
  ELSE LET x == CHOOSE y \in ids : TRUE IN f[x] + Sum(f, ids \ {x})

\* what the ledger says the escrow marker holds for the facility: the advance of every
\* Accepted pledge, the paydown amount of every Proposed or Accepted paydown and the purchase
\* price of each of these that its buyer has accepted
EscrowHeld ==
  LET advance == [p \in DOMAIN pledges |->
                    IF pledges[p].state = "Accepted" THEN pledges[p].total_advance ELSE 0]
      open == WithState(paydowns, {"Proposed", "Accepted"})
      paid == [d \in open |-> paydowns[d].total_paydown]
      price == [d \in open |->
                  IF paydowns[d].kind = "PaydownAndSell" /\ "Buyer" \in Range(paydowns[d].parties_accepted)
                  THEN paydowns[d].sale_info[1].price ELSE 0]
  IN Sum(advance, DOMAIN pledges) + Sum(paid, open) + Sum(price, open)

\* C35: what the facility has instructed into escrow less what it has instructed out of it is
\* the total_advance of the Accepted pledges plus the total_paydown of the Proposed and
\* Accepted paydowns plus the price of those of them whose buyer has accepted, and is never
\* negative
C35_EscrowConserved == escrow_net = EscrowHeld /\ escrow_net >= 0

\* escrow holds the advance of an Accepted pledge and the paydown amount and the buyer's price
\* of a Proposed paydown-and-sell, after an earlier pledge was executed and an earlier paydown
\* was cancelled or executed
C35_Witness ==
  /\ WithState(pledges, {"Accepted"}) # {}
  /\ WithState(pledges, {"Executed"}) # {}
  /\ WithState(paydowns, {"Cancelled", "Executed"}) # {}
  /\ \E d \in WithState(paydowns, {"Proposed"}) : "Buyer" \in Range(paydowns[d].parties_accepted)
  /\ escrow_net = 3

\* C36: every Executed pledge with a non-empty asset list has an asset whose recorded state is
\* Inventory or PaydownProposed
C36_ExecutedPledgeHoldsInventory ==
  \A p \in WithState(pledges, {"Executed"}) :
    pledges[p].assets # {} => pledges[p].assets \cap list_inventory(assets) # {}

\* an Executed pledge over two assets has seen both paid down in two executed paydowns and is
\* still Executed: the one asset it has in inventory was pledged again by a second Executed pledge
C36_Witness ==
  \E p, q \in WithState(pledges, {"Executed"}) :
    /\ p # q
    /\ Cardinality(pledges[p].assets) = 2
    /\ pledges[p].assets \cap list_inventory(assets) = pledges[q].assets
    /\ Cardinality(WithState(paydowns, {"Executed"})) = 2
    /\ pledges[p].assets \subseteq UNION {paydowns[d].assets : d \in WithState(paydowns, {"Executed"})}

PledgeOperations == {"ProposePledge", "AcceptPledge", "CancelPledge", "ExecutePledge"}

\* the responses of every call of an operation that is addressed to one id
ResponsesFor(op, id) ==
  CASE op = "ProposePledge" ->
         {propose_pledge(m, id, a, n, MarkerDenom(id)) : m \in EscrowMarkers, a \in AssetLists, n \in Amounts}
    [] op = "AcceptPledge" -> {accept_pledge(m, id, f) : m \in EscrowMarkers, f \in FundsSet}
    [] op = "CancelPledge" -> {cancel_pledge(m, id) : m \in EscrowMarkers}
    [] op = "ExecutePledge" -> {execute_pledge(m, id) : m \in EscrowMarkers}
    [] op = "ProposePaydown" ->
         {propose_paydown(m, id, a, n, f) : m \in EscrowMarkers, a \in AssetLists, n \in Amounts, f \in FundsSet}
    [] op = "ProposePaydownAndSell" ->
         {propose_paydown_and_sell(m, id, a, n, b, price, f) :
            m \in EscrowMarkers, a \in AssetLists, n \in Amounts, b \in Buyers, price \in Amounts, f \in FundsSet}
    [] op = "AcceptPaydown" -> {accept_paydown(m, id, s, f) : m \in EscrowMarkers, s \in Senders, f \in FundsSet}
    [] op = "CancelPaydown" -> {cancel_paydown(m, id) : m \in EscrowMarkers}
    [] op = "ExecutePaydown" -> {execute_paydown(m, id) : m \in EscrowMarkers}

\* C37: a call changes of a stored pledge nothing but its state and of a stored paydown nothing
\* but its state and parties_accepted; a call addressed to a pledge id leaves every other
\* pledge and every paydown as it was, a call addressed to a paydown id leaves every other
\* paydown and every pledge as it was, except that ExecutePaydown may set pledges to Closed
C37_OnlyAddressedRecordChanges ==
  \A op \in Operations :
    \A id \in (IF op \in PledgeOperations THEN PledgeIds ELSE PaydownIds) :
      \A r \in ResponsesFor(op, id) :
        /\ DOMAIN r.pledges = DOMAIN pledges \cup (IF op = "ProposePledge" /\ r.err = "Ok" THEN {id} ELSE {})
        /\ DOMAIN r.paydowns =
             DOMAIN paydowns \cup (IF op \in {"ProposePaydown", "ProposePaydownAndSell"} /\ r.err = "Ok" THEN {id} ELSE {})
        /\ \A p \in DOMAIN pledges :
             /\ [r.pledges[p] EXCEPT !.state = pledges[p].state] = pledges[p]
             /\ \/ r.pledges[p] = pledges[p]
                \/ op \in PledgeOperations /\ p = id
                \/ op = "ExecutePaydown" /\ r.pledges[p].state = "Closed"
        /\ \A d \in DOMAIN paydowns :
             /\ [r.paydowns[d] EXCEPT !.state = paydowns[d].state,
                                      !.parties_accepted = paydowns[d].parties_accepted] = paydowns[d]
             /\ r.paydowns[d] = paydowns[d] \/ (op \notin PledgeOperations /\ d = id)

\* the execution of an Accepted paydown closes one pledge and leaves the other pledge and the
\* other paydown as they are, and a Proposed pledge can be accepted next to another pledge
C37_Witness ==
  /\ \E id \in WithState(paydowns, {"Accepted"}), p, q \in DOMAIN pledges :
       LET r == execute_paydown(FullGrant, id)
       IN /\ p # q
          /\ pledges[p].state = "Executed" /\ r.pledges[p].state = "Closed"
          /\ r.pledges[q] = pledges[q]
          /\ \E d \in DOMAIN paydowns : d # id /\ r.paydowns[d] = paydowns[d]
  /\ \E p \in WithState(pledges, {"Proposed"}) :
       accept_pledge(FullGrant, p, ExactFunds(pledges[p].total_advance)).err = "Ok"

\* after is before with the records of ids set to state, nothing else changed
Marked(before, after, ids, state) ==
  /\ ids \cap DOMAIN before = {} \/ \A a \in ids : a \in DOMAIN before
  /\ DOMAIN after = DOMAIN before \cup ids
  /\ \A a \in ids : after[a] = state
  /\ \A a \in DOMAIN before \ ids : after[a] = before[a]

\* after is before without the records of ids, nothing else changed
Untracked(before, after, ids) ==
  /\ DOMAIN after = DOMAIN before \ ids
  /\ \A a \in DOMAIN after : after[a] = before[a]

\* C38: a successful ProposePledge adds PledgeProposed records for assets that had none and
\* changes no other record, AcceptPledge changes no asset record, and CancelPledge of a
\* Proposed or Accepted pledge removes exactly the records the proposal added, so the asset
\* records are as before the proposal; a successful paydown proposal turns records that were
\* Inventory into PaydownProposed, AcceptPaydown changes no asset record, and CancelPaydown of
\* a Proposed or Accepted paydown turns exactly these records back into Inventory
C38_CancelRestoresAssets ==
  /\ \A r \in Responses("ProposePledge") :
       r.err = "Ok" =>
         \E ids \in AssetLists :
           ids \cap DOMAIN assets = {} /\ Marked(assets, r.assets, ids, "PledgeProposed")
  /\ \A r \in Responses("AcceptPledge") \cup Responses("AcceptPaydown") : r.assets = assets
  /\ \A p \in WithState(pledges, {"Proposed", "Accepted"}) :
       /\ AllInState(pledges[p].assets, "PledgeProposed")
       /\ \A m \in EscrowMarkers :
            LET r == cancel_pledge(m, p)
            IN r.err = "Ok" =>
                 /\ Untracked(assets, r.assets, pledges[p].assets)
                 /\ Marked(r.assets, assets, pledges[p].assets, "PledgeProposed")
  /\ \A r \in Responses("ProposePaydown") \cup Responses("ProposePaydownAndSell") :
       r.err = "Ok" =>
         \E ids \in AssetLists :
           AllInState(ids, "Inventory") /\ Marked(assets, r.assets, ids, "PaydownProposed")
  /\ \A d \in WithState(paydowns, {"Proposed", "Accepted"}) :
       /\ AllInState(paydowns[d].assets, "PaydownProposed")
       /\ \A m \in EscrowMarkers :
            LET r == cancel_paydown(m, d)
            IN r.err = "Ok" =>
                 /\ Marked(assets, r.assets, paydowns[d].assets, "Inventory")
                 /\ Marked(r.assets, assets, paydowns[d].assets, "PaydownProposed")

\* the asset of a cancelled pledge was pledged again and executed, and the asset of a
\* cancelled paydown is under a new paydown that can be cancelled in its turn
C38_Witness ==
  /\ \E p \in WithState(pledges, {"Cancelled"}), q \in WithState(pledges, {"Executed"}) :
       pledges[p].assets = pledges[q].assets
  /\ \E d \in WithState(paydowns, {"Cancelled"}), e \in WithState(paydowns, {"Accepted"}) :
       /\ paydowns[d].assets = paydowns[e].assets
       /\ cancel_paydown(FullGrant, e).err = "Ok"

\* ------------------------------------------------ the facility with any buyer address
\* propose_paydown_and_sell stores whatever buyer address the request names, the warehouse's
\* own address included
AnyBuyers == Buyers \cup {Warehouse}

ProposePaydownAndSellAnyBuyer ==
  \E m \in EscrowMarkers, id \in PaydownIds, a \in AssetLists, n \in Amounts, b \in AnyBuyers, price \in Amounts, f \in FundsSet :
    /\ Install(propose_paydown_and_sell(m, id, a, n, b, price, f))
    /\ UNCHANGED removed_by_paydown

AnyBuyerNext ==
  \/ ProposePledge
  \/ AcceptPledge
  \/ CancelPledge
  \/ ExecutePledge
  \/ ProposePaydown
  \/ ProposePaydownAndSellAnyBuyer
  \/ AcceptPaydown
  \/ CancelPaydown
  \/ ExecutePaydown

AnyBuyerSpec == Init /\ [][AnyBuyerNext]_vars

\* C39: for every Proposed paydown-and-sell that its buyer has not accepted yet, AcceptPaydown
\* sent from the recorded buyer address with exactly the purchase price, the escrow grant
\* held, succeeds and records Buyer in parties_accepted, whatever the buyer address is
C39_BuyerAcceptanceRecorded ==
  \A id \in WithState(paydowns, {"Proposed"}) :
    (paydowns[id].kind = "PaydownAndSell" /\ "Buyer" \notin Range(paydowns[id].parties_accepted)) =>
      LET r == accept_paydown(FullGrant, id, paydowns[id].sale_info[1].buyer,
                              ExactFunds(paydowns[id].sale_info[1].price))
      IN r.err = "Ok" /\ "Buyer" \in Range(r.paydowns[id].parties_accepted)

\* ------------------------------------------------------------ fair scheduling
\* the ids in use under the fair schedule: one paydown id, used again and again
LivePledgeIds == PledgeIds

LivePaydownIds == {d \in PaydownIds : d = 1}

\* the funds attached under the fair schedule: one coin of the settlement currency
LiveFunds == {ExactFunds(n) : n \in Amounts}

\* the calls on one record that are made with the escrow grant held
ProposePledgeOf(p) ==
  \E a \in AssetLists, n \in Amounts :
    Install(propose_pledge(FullGrant, p, a, n, MarkerDenom(p))) /\ UNCHANGED removed_by_paydown

AcceptPledgeOf(p) ==
  \E f \in LiveFunds : Install(accept_pledge(FullGrant, p, f)) /\ UNCHANGED removed_by_paydown

CancelPledgeOf(p) == Install(cancel_pledge(FullGrant, p)) /\ UNCHANGED removed_by_paydown

ExecutePledgeOf(p) ==
  /\ Install(execute_pledge(FullGrant, p))
  /\ removed_by_paydown' = IF execute_pledge(FullGrant, p).err = "Ok"
                           THEN removed_by_paydown \ pledges[p].assets ELSE removed_by_paydown

ProposePaydownOf(d) ==
  \E a \in AssetLists, n \in Amounts, f \in LiveFunds :
    Install(propose_paydown(FullGrant, d, a, n, f)) /\ UNCHANGED removed_by_paydown

ProposePaydownAndSellOf(d) ==
  \E a \in AssetLists, n \in Amounts, b \in Buyers, price \in Amounts, f \in LiveFunds :
    Install(propose_paydown_and_sell(FullGrant, d, a, n, b, price, f)) /\ UNCHANGED removed_by_paydown

AcceptPaydownBy(d, sender) ==
  \E f \in LiveFunds : Install(accept_paydown(FullGrant, d, sender, f)) /\ UNCHANGED removed_by_paydown

CancelPaydownOf(d) == Install(cancel_paydown(FullGrant, d)) /\ UNCHANGED removed_by_paydown

ExecutePaydownOf(d) ==
  /\ Install(execute_paydown(FullGrant, d))
  /\ removed_by_paydown' = IF execute_paydown(FullGrant, d).err = "Ok"
                           THEN removed_by_paydown \cup paydowns[d].assets ELSE removed_by_paydown

\* Ids are caller-chosen strings without bound, while PaydownIds is finite: a Cancelled or
\* Executed paydown, which no handler changes any more, is dropped from the map so that its
\* id stands for one not used before.
ForgetPaydown ==
  \E d \in WithState(paydowns, {"Cancelled", "Executed"}) :
    /\ paydowns' = [x \in DOMAIN paydowns \ {d} |-> paydowns[x]]
    /\ UNCHANGED <<pledges, assets, removed_by_paydown, escrow_net, schedule, config, capital_sent,
                   transfers, requested, released>>

\* any party makes any call
AnyCall ==
  /\ schedule = "any"
  /\ \/ \E p \in LivePledgeIds : ProposePledgeOf(p) \/ AcceptPledgeOf(p) \/ CancelPledgeOf(p) \/ ExecutePledgeOf(p)
     \/ \E d \in LivePaydownIds :
          \/ ProposePaydownOf(d) \/ ProposePaydownAndSellOf(d)
          \/ CancelPaydownOf(d) \/ ExecutePaydownOf(d)
          \/ \E sender \in Senders : AcceptPaydownBy(d, sender)
     \/ ForgetPaydown

\* from any moment on the parties may turn to settling
Settle ==
  /\ schedule = "any"
  /\ schedule' = "settling"
  /\ UNCHANGED <<pledges, paydowns, assets, removed_by_paydown, escrow_net, config, capital_sent,
                 transfers, requested, released>>

\* the settling calls: the warehouse cancels the pledges it has not funded out, the originator
\* pays down the inventory with plain paydowns which the warehouse accepts and executes, and
\* paydown-and-sell proposals still open are cancelled
SettlingCall ==
  /\ schedule = "settling"
  /\ \/ \E p \in LivePledgeIds : CancelPledgeOf(p)
     \/ \E d \in LivePaydownIds :
          \/ ProposePaydownOf(d)
          \/ ExecutePaydownOf(d)
          \/ d \in DOMAIN paydowns /\ paydowns[d].kind = "PaydownOnly" /\ AcceptPaydownBy(d, Warehouse)
          \/ d \in DOMAIN paydowns /\ paydowns[d].kind = "PaydownAndSell" /\ CancelPaydownOf(d)
     \/ ForgetPaydown

LiveNext == AnyCall \/ Settle \/ SettlingCall

\* every cancel, accept and execute call that stays or keeps becoming possible is made; once
\* the parties settle, a settling call is made as long as one is possible
FairCalls ==
  /\ \A p \in LivePledgeIds :
       /\ SF_vars(schedule = "any" /\ CancelPledgeOf(p))
       /\ SF_vars(schedule = "any" /\ AcceptPledgeOf(p))
       /\ SF_vars(schedule = "any" /\ ExecutePledgeOf(p))
  /\ \A d \in LivePaydownIds :
       /\ SF_vars(schedule = "any" /\ CancelPaydownOf(d))
       /\ SF_vars(schedule = "any" /\ ExecutePaydownOf(d))
       /\ \A sender \in Senders : SF_vars(schedule = "any" /\ AcceptPaydownBy(d, sender))
  /\ WF_vars(SettlingCall)

LiveSpec == Init /\ [][LiveNext]_vars /\ FairCalls

OpenPledge(p) == p \in WithState(pledges, {"Proposed", "Accepted", "Executed"})

EndedPledge(p) == p \in WithState(pledges, {"Cancelled", "Closed"})

====
